---- MODULE Spec2Model ----
(***************************************************************************)
(* Hook-and-resign pipeline of MKTools (signerService): injectAndResignApk *)
(* and the functions it calls, modelled as a state machine over a small    *)
(* file system.  Text files (manifest, smali) are sequences of tokens, so  *)
(* that the regular-expression scans of the source are computed, not       *)
(* assumed.                                                                *)
(***************************************************************************)
EXTENDS Integers, Sequences, FiniteSets, TLC

\* Number of jobs run one after the other on the same input path.
MaxJobs == 2

Min(S) == CHOOSE x \in S : \A y \in S : x <= y
Max(S) == CHOOSE x \in S : \A y \in S : x >= y

\* A token of a text file: kind t, text k, a name or register list v, a number n.
\* Instruction tokens also carry an operand a (sequence of strings).
Tok(t, k, v, n) == [t |-> t, k |-> k, v |-> v, n |-> n, a |-> << >>]

\* The first index of a set of positions, 0 if there is none (a failed regex match).
First(I) == IF I = {} THEN 0 ELSE Min(I)

StartsWith(name, prefix) ==
    /\ Len(name) >= Len(prefix)
    /\ SubSeq(name, 1, Len(prefix)) = prefix

\* null / undefined / '' of the source
Null == <<>>

(***************************************************************************)
(* Names                                                                   *)
(***************************************************************************)
PkgDemo == <<"com.example.demo">>
RelApp == <<".", "App">>
BareApp == <<"App">>
FqApp == <<"com.example.demo", ".", "App">>
FrameworkApp == <<"android", ".", "app.Application">>
RelMain == <<".", "Main">>
FqMain == <<"com.example.demo", ".", "Main">>
MyApplicationName == <<"com.demo.repackage", ".", "MyApplication">>
ProxyHookPMSName == <<"com.verify.signature", ".", "ProxyHookPMS">>
HookServiceWraperName == <<"com.verify.signature", ".", "HookServiceWraper">>
ActionMain == <<"android", ".", "intent.action.MAIN">>
CategoryLauncher == <<"android", ".", "intent.category.LAUNCHER">>
Sentinel == <<"0", "0">>
CertHex == <<"3", "0", "8", "2", "a", "b">>

(***************************************************************************)
(* Manifest text: "<tag" is Open, "</tag" is Close, k="v" is Attr          *)
(***************************************************************************)
Open(tag) == Tok("open", tag, Null, 0)
Close(tag) == Tok("close", tag, Null, 0)
Attr(k, v) == Tok("attr", k, v, 0)

LaunchActivityDoc(act) ==
    << Open("activity"), Attr("android:name", act), Open("intent-filter"),
       Open("action"), Attr("android:name", ActionMain),
       Open("category"), Attr("android:name", CategoryLauncher),
       Close("intent-filter"), Close("activity") >>

\* A launcher entry that is an alias of act, not an activity of its own.
LaunchAliasDoc(alias, act) ==
    << Open("activity-alias"), Attr("android:name", alias),
       Attr("android:targetActivity", act), Open("intent-filter"),
       Open("action"), Attr("android:name", ActionMain),
       Open("category"), Attr("android:name", CategoryLauncher),
       Close("intent-filter"), Close("activity-alias") >>

PlainActivityDoc ==
    << Open("activity"), Attr("android:name", <<".", "Settings">>), Close("activity") >>

\* The manifests of the input packages: package, optional <application> with an
\* optional android:name, a plain activity and an optional launch activity.
MkManifest(hasApp, appName, hasLaunch) ==
    << Open("manifest"), Attr("package", PkgDemo) >>
    \o (IF hasApp
        THEN << Open("application") >>
             \o (IF appName = Null THEN << >> ELSE << Attr("android:name", appName) >>)
             \o << Attr("android:label", <<"@", "string/app_name">>) >>
             \o PlainActivityDoc
             \o (IF hasLaunch THEN LaunchActivityDoc(RelMain) ELSE << >>)
             \o << Close("application") >>
        ELSE << >>)
    \o << Close("manifest") >>

\* A manifest file on disk: its first two bytes, its length and its document.
ManifestFile(enc, doc) ==
    [ enc |-> enc,
      magic |-> IF enc = "binary" THEN <<3, 0>> ELSE <<60, 63>>,
      len |-> 8 + Len(doc),
      doc |-> doc ]

\* buffer.toString('utf-8') of a file: the text itself, or for packed XML the
\* strings of its pool without any markup.
BufferToUtf8(f) ==
    IF f.enc = "text" THEN f.doc
    ELSE [i \in 1..Len(f.doc) |-> Tok("raw", f.doc[i].k, f.doc[i].v, 0)]

IsBinaryMagic(f) == f.len > 4 /\ f.magic[1] = 3 /\ f.magic[2] = 0

IsAppOpen(tok) == tok.t = "open" /\ tok.k = "application"
IsStopTok(tok) ==
    \/ tok.t = "open" /\ tok.k \in {"activity", "activity-alias", "service", "provider",
                                    "receiver", "meta-data"}
    \/ tok.t = "close" /\ tok.k = "application"
IsAndroidNameAttr(tok) == tok.t = "attr" /\ tok.k = "android:name"
IsPackageAttr(tok) == tok.t = "attr" /\ tok.k = "package"
IsActivityOpen(tok) == tok.t = "open" /\ tok.k \in {"activity", "activity-alias"}

ExcludedName(name) ==
    \/ StartsWith(name, <<"@">>)
    \/ StartsWith(name, <<"android", ".">>)
    \/ name = <<"true">>
    \/ name = <<"false">>

extractApplicationName(content) ==
    LET appStart == First({ix \in 1..Len(content) : IsAppOpen(content[ix])})
    IN IF appStart = 0 THEN Null
       ELSE LET area == SubSeq(content, appStart, Len(content))
                stop == First({ix \in 1..Len(area) : IsStopTok(area[ix])})
                scan == IF stop # 0 THEN SubSeq(area, 1, stop - 1) ELSE area
                nm == First({ix \in 1..Len(scan) : IsAndroidNameAttr(scan[ix])})
            IN IF nm # 0 /\ ~ExcludedName(scan[nm].v) THEN scan[nm].v ELSE Null

\* A match that never finds the package attribute.
matchPackageNone(content) == Null

\* manifestContent.match(/package\s*=\s*["']([^"']+)["']/)
matchPackage(content) ==
    LET i == First({ix \in 1..Len(content) : IsPackageAttr(content[ix])})
    IN IF i = 0 THEN Null ELSE content[i].v

normalizeClassName(className, packageName) ==
    IF StartsWith(className, <<".">>) THEN packageName \o className ELSE className

\* The parts of content.split('<activity'): part p starts after the p-th "<activity".
findLaunchActivity(content) ==
    LET starts == {i \in 1..Len(content) : IsActivityOpen(content[i])}
        PartEnd(i) == LET later == {j \in starts : j > i}
                      IN IF later = {} THEN Len(content) ELSE Min(later) - 1
        Part(i) == SubSeq(content, i + 1, PartEnd(i))
        Includes(part, v) == \E j \in 1..Len(part) : part[j].v = v
        first == IF starts = {} THEN Len(content) ELSE Min(starts) - 1
        Name(part) == LET nm == First({ix \in 1..Len(part) : IsAndroidNameAttr(part[ix])})
                      IN IF nm = 0 THEN Null ELSE part[nm].v
        Good(part) == /\ Includes(part, ActionMain)
                      /\ Includes(part, CategoryLauncher)
                      /\ Name(part) # Null
        good == {i \in starts : Good(Part(i))}
    IN IF Good(SubSeq(content, 1, first)) THEN Name(SubSeq(content, 1, first))
       ELSE IF good = {} THEN Null
       ELSE Name(Part(Min(good)))

(***************************************************************************)
(* Smali text: one token per directive or instruction                      *)
(***************************************************************************)
Insn(op, regs, arg) == [t |-> "insn", k |-> op, v |-> regs, n |-> 0, a |-> arg]
Comment(text) == Tok("comment", text, << >>, 0)
Super(cls) == Tok("super", cls, << >>, 0)
Method(sig) == Tok("method", sig, << >>, 0)
Locals(n) == Tok("locals", "", << >>, n)
Registers(n) == Tok("registers", "", << >>, n)
EndMethod == Tok("end", "", << >>, 0)
StartHookPMS == "invoke-static HookServiceWraper;->startHookPMS"
LogD == "invoke-static Log;->d"

IsLocals(tok) == tok.t = "locals"
IsSuper(tok) == tok.t = "super"
IsEnd(tok) == tok.t = "end"
IsInstallerCall(tok) == tok.t = "insn" /\ tok.k = StartHookPMS

SigAttach == "attachBaseContext(Landroid/content/Context;)V"
SigOnCreate == "onCreate(Landroid/os/Bundle;)V"
SigClinit == "<clinit>()V"
SigProviderOnCreate == "onCreate()Z"

methodSigOf(method) ==
    IF method = "attachBaseContext" THEN SigAttach
    ELSE IF method = "onCreate" THEN SigOnCreate
    ELSE IF method = "staticBlock" THEN SigClinit
    ELSE SigProviderOnCreate

\* A patch that only ever asks for the two registers of the direct call.
minLocalsFlat(method) == 2

minLocalsOf(method) ==
    IF method = "staticBlock" THEN 6 ELSE IF method = "providerOnCreate" THEN 3 ELSE 2

\* An injected block whose direct call goes through a third register.
hookCallSpill(method, signature, pkgName) ==
    << Comment("# Inject Hook Start"),
       Insn("const-string", <<"v0">>, signature),
       Insn("const-string", <<"v1">>, pkgName),
       Insn("move-object", <<"v2">>, <<"p0">>),
       Insn(StartHookPMS, <<"v2", "v0", "v1">>, << >>),
       Comment("# Inject Hook End") >>

\* The injected block, by variant.
hookCall(method, signature, pkgName) ==
    LET contextReg == IF method = "attachBaseContext" THEN "p1" ELSE "p0"
    IN IF method = "providerOnCreate" THEN
         << Comment("# Inject Hook Start (Provider)"),
            Insn("const-string", <<"v0">>, <<"SIGN_HOOK">>),
            Insn("const-string", <<"v1">>, <<"Starting Provider hook...">>),
            Insn(LogD, <<"v0", "v1">>, << >>),
            Insn("invoke-virtual ContentProvider;->getContext", <<"p0">>, << >>),
            Insn("move-result-object", <<"v2">>, << >>),
            Insn("const-string", <<"v0">>, signature),
            Insn("const-string", <<"v1">>, pkgName),
            Insn(StartHookPMS, <<"v2", "v0", "v1">>, << >>),
            Comment("# Inject Hook End") >>
       ELSE IF method = "staticBlock" THEN
         << Comment("# Inject Hook Start (Static Block)"),
            Insn("const-string", <<"v0">>, <<"SIGN_HOOK">>),
            Insn("const-string", <<"v1">>, <<"Starting static block hook...">>),
            Insn(LogD, <<"v0", "v1">>, << >>),
            Comment(":try_start_0"),
            Insn("const-string", <<"v0">>, <<"android.app.ActivityThread">>),
            Insn("invoke-static Class;->forName", <<"v0">>, << >>),
            Insn("move-result-object", <<"v0">>, << >>),
            Insn("const-string", <<"v1">>, <<"currentApplication">>),
            Insn("const/4", <<"v2">>, <<"0x0">>),
            Insn("new-array", <<"v3", "v2">>, <<"[Ljava/lang/Class;">>),
            Insn("invoke-virtual Class;->getDeclaredMethod", <<"v0", "v1", "v3">>, << >>),
            Insn("move-result-object", <<"v0">>, << >>),
            Insn("const/4", <<"v1">>, <<"0x0">>),
            Insn("new-array", <<"v2", "v2">>, <<"[Ljava/lang/Object;">>),
            Insn("invoke-virtual Method;->invoke", <<"v0", "v1", "v2">>, << >>),
            Insn("move-result-object", <<"v0">>, << >>),
            Insn("check-cast", <<"v0">>, <<"Landroid/content/Context;">>),
            Insn("const-string", <<"v1">>, <<"SIGN_HOOK">>),
            Insn("const-string", <<"v2">>, <<"Context retrieved successfully in static block">>),
            Insn(LogD, <<"v1", "v2">>, << >>),
            Insn("const-string", <<"v1">>, signature),
            Insn("const-string", <<"v2">>, pkgName),
            Insn(StartHookPMS, <<"v0", "v1", "v2">>, << >>),
            Comment(":try_end_0"),
            Comment(".catch Ljava/lang/Exception; {:try_start_0 .. :try_end_0} :catch_0"),
            Insn("goto", << >>, <<":goto_0">>),
            Comment(":catch_0"),
            Insn("move-exception", <<"v0">>, << >>),
            Insn("const-string", <<"v1">>, <<"SIGN_HOOK">>),
            Insn("const-string", <<"v2">>, <<"Failed to get Context in static block, fallback to null">>),
            Insn("invoke-static Log;->e", <<"v1", "v2", "v0">>, << >>),
            Insn("const/4", <<"v0">>, <<"0x0">>),
            Insn("const-string", <<"v1">>, signature),
            Insn("const-string", <<"v2">>, pkgName),
            Insn(StartHookPMS, <<"v0", "v1", "v2">>, << >>),
            Comment(":goto_0"),
            Comment("# Inject Hook End") >>
       ELSE
         << Comment("# Inject Hook Start"),
            Insn("const-string", <<"v0">>, <<"SIGN_HOOK">>),
            Insn("const-string", <<"v1">>, <<"Starting Generic hook (", method, ")...">>),
            Insn(LogD, <<"v0", "v1">>, << >>),
            Insn("const-string", <<"v0">>, signature),
            Insn("const-string", <<"v1">>, pkgName),
            Insn(StartHookPMS, <<contextReg, "v0", "v1">>, << >>),
            Comment("# Inject Hook End") >>

\* The method appended when the class has no method of the wanted signature.
newMethodOf(content, method, signature, pkgName) ==
    LET s == First({ix \in 1..Len(content) : IsSuper(content[ix])})
        superOfFile == IF s # 0 THEN content[s].k ELSE "Landroid/app/Activity;"
        superClass == IF method = "attachBaseContext" THEN "Landroid/app/Application;"
                      ELSE IF method = "providerOnCreate" THEN "Landroid/content/ContentProvider;"
                      ELSE superOfFile
    IN IF method = "providerOnCreate" THEN
         << Comment("# virtual methods"), Method(SigProviderOnCreate), Locals(3) >>
         \o hookCall(method, signature, pkgName)
         \o << Insn("invoke-super", <<"p0">>, <<superClass, "->", "onCreate()Z">>),
               Insn("move-result", <<"v0">>, << >>),
               Insn("return", <<"v0">>, << >>),
               EndMethod >>
       ELSE IF method = "staticBlock" THEN
         << Comment("# direct methods"), Method(SigClinit), Locals(6) >>
         \o hookCall(method, signature, pkgName)
         \o << Insn("return-void", << >>, << >>), EndMethod >>
       ELSE
         << Comment("# virtual methods"), Method(methodSigOf(method)), Locals(2) >>
         \o hookCall(method, signature, pkgName)
         \o << Insn("invoke-super", <<"p0", "p1">>, <<superClass, "->", methodSigOf(method)>>),
               Insn("return-void", << >>, << >>),
               EndMethod >>

\* The new text of a class file after injectCodeToSmali.
injectCodeToSmali(content, signature, pkgName, method) ==
    LET sig == methodSigOf(method)
        IsTarget(tok) == tok.t = "method" /\ tok.k = sig
        i == First({ix \in 1..Len(content) : IsTarget(content[ix])})
        j == IF i = 0 THEN 0 ELSE First({ix \in i + 1..Len(content) : IsLocals(content[ix])})
    IN IF i # 0 THEN
         IF j # 0 THEN
           LET count == content[j].n
               header == IF count < minLocalsOf(method)
                         THEN SubSeq(content, i, j - 1) \o << Locals(minLocalsOf(method)) >>
                         ELSE SubSeq(content, i, j)
           IN SubSeq(content, 1, i - 1) \o header
              \o hookCall(method, signature, pkgName)
              \o SubSeq(content, j + 1, Len(content))
         ELSE content
       ELSE content \o newMethodOf(content, method, signature, pkgName)

\* Class files of the input packages, by the shape of the target method.
BodyInsn == Insn("invoke-super", <<"p0", "p1">>, <<"original body">>)
InitMethod(superCls) ==
    << Method("<init>()V"), Locals(0),
       Insn("invoke-direct", <<"p0">>, <<superCls, "->", "<init>()V">>),
       Insn("return-void", << >>, << >>), EndMethod >>
OtherMethod ==
    << Method("onLowMemory()V"), Locals(1),
       Insn("return-void", << >>, << >>), EndMethod >>
Shapes == {"absent", "localsLow", "localsHigh", "regsThenLocals", "regsOnly"}
MkClass(superCls, sig, shape) ==
    << Super(superCls) >> \o InitMethod(superCls)
    \o (IF shape = "absent" THEN << >>
        ELSE << Method(sig) >>
             \o (IF shape = "localsLow" THEN << Locals(0) >>
                 ELSE IF shape = "localsHigh" THEN << Locals(7) >>
                 ELSE << Registers(3) >>)
             \o << BodyInsn, Insn("return-void", << >>, << >>), EndMethod >>)
    \o (IF shape = "regsThenLocals" THEN OtherMethod ELSE << >>)

\* Number of installer calls between the .method line of sig and its .end method.
CallsIn(content, sig) ==
    LET IsTarget(tok) == tok.t = "method" /\ tok.k = sig
        i == First({ix \in 1..Len(content) : IsTarget(content[ix])})
        e == IF i = 0 THEN 0 ELSE First({ix \in i + 1..Len(content) : IsEnd(content[ix])})
    IN IF i = 0 \/ e = 0 THEN 0
       ELSE Cardinality({x \in i..e : IsInstallerCall(content[x])})

\* The register declaration of the method sig: <<directive, count>>, Null if none.
DeclOf(content, sig) ==
    LET IsTarget(tok) == tok.t = "method" /\ tok.k = sig
        IsDecl(tok) == tok.t \in {"locals", "registers"}
        i == First({ix \in 1..Len(content) : IsTarget(content[ix])})
        e == IF i = 0 THEN 0 ELSE First({ix \in i + 1..Len(content) : IsEnd(content[ix])})
        d == IF i = 0 THEN 0 ELSE First({ix \in i + 1..Len(content) : IsDecl(content[ix])})
    IN IF d = 0 \/ e = 0 \/ d > e THEN Null ELSE <<content[d].t, content[d].n>>

(***************************************************************************)
(* Generated classes (smaliTemplates.ts)                                   *)
(***************************************************************************)
proxyHookPMS ==
    << Tok("class", "Lcom/verify/signature/ProxyHookPMS;", << >>, 0),
       Super("Ljava/lang/Object;"),
       Tok("source", "ProxyHookPMS.java", << >>, 0),
       Comment("# interfaces"),
       Tok("implements", "Ljava/lang/reflect/InvocationHandler;", << >>, 0),
       Comment("# instance fields"),
       Tok("field", "SIGN:Ljava/lang/String;", << >>, 0),
       Tok("field", "appPkgName:Ljava/lang/String;", << >>, 0),
       Tok("field", "base:Ljava/lang/Object;", << >>, 0),
       Comment("# direct methods"),
       Method("<init>(Ljava/lang/Object;Ljava/lang/String;Ljava/lang/String;I)V"),
       Locals(0),
       Insn("invoke-direct", <<"p0">>, <<"Ljava/lang/Object;", "->", "<init>()V">>),
       Comment(":try_start_0"),
       Insn("iput-object", <<"p1", "p0">>, <<"base">>),
       Insn("iput-object", <<"p2", "p0">>, <<"SIGN">>),
       Insn("iput-object", <<"p3", "p0">>, <<"appPkgName">>),
       Comment(":try_end_0"),
       Comment(".catch Ljava/lang/Exception; {:try_start_0 .. :try_end_0} :catch_0"),
       Insn("goto", << >>, <<":goto_0">>),
       Comment(":catch_0"),
       Insn("move-exception", <<"p1">>, << >>),
       Insn("invoke-virtual Exception;->printStackTrace", <<"p1">>, << >>),
       Comment(":goto_0"),
       Insn("return-void", << >>, << >>),
       EndMethod,
       Comment("# virtual methods"),
       Method("invoke(Ljava/lang/Object;Ljava/lang/reflect/Method;[Ljava/lang/Object;)Ljava/lang/Object;"),
       Locals(3),
       Comment(".annotation system Ldalvik/annotation/Throws;"),
       Comment("# Log invoke"),
       Insn("const-string", <<"v0">>, <<"SIGN_HOOK">>),
       Insn("new-instance", <<"v1">>, <<"Ljava/lang/StringBuilder;">>),
       Insn("invoke-direct StringBuilder;-><init>", <<"v1">>, << >>),
       Insn("const-string", <<"v2">>, <<"ProxyHookPMS.invoke: ">>),
       Insn("invoke-virtual StringBuilder;->append", <<"v1", "v2">>, << >>),
       Insn("invoke-virtual Method;->getName", <<"p2">>, << >>),
       Insn("move-result-object", <<"v2">>, << >>),
       Insn("invoke-virtual StringBuilder;->append", <<"v1", "v2">>, << >>),
       Insn("invoke-virtual StringBuilder;->toString", <<"v1">>, << >>),
       Insn("move-result-object", <<"v1">>, << >>),
       Insn(LogD, <<"v0", "v1">>, << >>),
       Insn("const-string", <<"p1">>, <<"getPackageInfo">>),
       Insn("invoke-virtual Method;->getName", <<"p2">>, << >>),
       Insn("move-result-object", <<"v0">>, << >>),
       Insn("invoke-virtual String;->equals", <<"p1", "v0">>, << >>),
       Insn("move-result", <<"p1">>, << >>),
       Insn("if-eqz", <<"p1">>, <<":cond_0">>),
       Insn("const/4", <<"p1">>, <<"0x0">>),
       Insn("aget-object", <<"v0", "p3", "p1">>, << >>),
       Insn("check-cast", <<"v0">>, <<"Ljava/lang/String;">>),
       Insn("const/4", <<"v1">>, <<"0x1">>),
       Insn("aget-object", <<"v1", "p3", "v1">>, << >>),
       Insn("check-cast", <<"v1">>, <<"Ljava/lang/Integer;">>),
       Insn("invoke-virtual Integer;->intValue", <<"v1">>, << >>),
       Insn("move-result", <<"v1">>, << >>),
       Insn("const/16", <<"v2">>, <<"0x40">>),
       Insn("and-int/2addr", <<"v1", "v2">>, << >>),
       Insn("if-eqz", <<"v1">>, <<":cond_0">>),
       Insn("iget-object", <<"v1", "p0">>, <<"appPkgName">>),
       Insn("invoke-virtual String;->equals", <<"v1", "v0">>, << >>),
       Insn("move-result", <<"v0">>, << >>),
       Insn("if-eqz", <<"v0">>, <<":cond_0">>),
       Insn("new-instance", <<"v0">>, <<"Landroid/content/pm/Signature;">>),
       Insn("iget-object", <<"v1", "p0">>, <<"SIGN">>),
       Insn("invoke-direct Signature;-><init>", <<"v0", "v1">>, << >>),
       Insn("iget-object", <<"v1", "p0">>, <<"base">>),
       Insn("invoke-virtual Method;->invoke", <<"p2", "v1", "p3">>, << >>),
       Insn("move-result-object", <<"p2">>, << >>),
       Insn("check-cast", <<"p2">>, <<"Landroid/content/pm/PackageInfo;">>),
       Insn("iget-object", <<"p3", "p2">>, <<"signatures">>),
       Insn("aput-object", <<"v0", "p3", "p1">>, << >>),
       Insn("return-object", <<"p2">>, << >>),
       Comment(":cond_0"),
       Insn("iget-object", <<"p1", "p0">>, <<"base">>),
       Insn("invoke-virtual Method;->invoke", <<"p2", "p1", "p3">>, << >>),
       Insn("move-result-object", <<"p1">>, << >>),
       Insn("return-object", <<"p1">>, << >>),
       EndMethod >>

hookServiceWraper ==
    << Tok("class", "Lcom/verify/signature/HookServiceWraper;", << >>, 0),
       Super("Ljava/lang/Object;"),
       Tok("source", "HookServiceWraper.java", << >>, 0),
       Comment("# direct methods") >>
    \o InitMethod("Ljava/lang/Object;")
    \o << Method("startHookPMS(Landroid/content/Context;Ljava/lang/String;Ljava/lang/String;)V"),
          Locals(8),
          Comment("# Log start"),
          Insn("const-string", <<"v0">>, <<"SIGN_HOOK">>),
          Insn("const-string", <<"v1">>, <<"HookServiceWraper.startHookPMS called">>),
          Insn(LogD, <<"v0", "v1">>, << >>),
          Comment(":try_start_0"),
          Insn("const-string", <<"v0">>, <<"android.app.ActivityThread">>),
          Insn("invoke-static Class;->forName", <<"v0">>, << >>),
          Insn("move-result-object", <<"v0">>, << >>),
          Insn("const-string", <<"v1">>, <<"currentActivityThread">>),
          Insn("const/4", <<"v2">>, <<"0x0">>),
          Insn("new-array", <<"v3", "v2">>, <<"[Ljava/lang/Class;">>),
          Insn("invoke-virtual Class;->getDeclaredMethod", <<"v0", "v1", "v3">>, << >>),
          Insn("move-result-object", <<"v1">>, << >>),
          Insn("new-array", <<"v3", "v2">>, <<"[Ljava/lang/Object;">>),
          Insn("const/4", <<"v4">>, <<"0x0">>),
          Insn("invoke-virtual Method;->invoke", <<"v1", "v4", "v3">>, << >>),
          Insn("move-result-object", <<"v1">>, << >>),
          Insn("const-string", <<"v3">>, <<"sPackageManager">>),
          Insn("invoke-virtual Class;->getDeclaredField", <<"v0", "v3">>, << >>),
          Insn("move-result-object", <<"v0">>, << >>),
          Insn("const/4", <<"v3">>, <<"0x1">>),
          Insn("invoke-virtual Field;->setAccessible", <<"v0", "v3">>, << >>),
          Insn("invoke-virtual Field;->get", <<"v0", "v1">>, << >>),
          Insn("move-result-object", <<"v4">>, << >>),
          Insn("const-string", <<"v5">>, <<"android.content.pm.IPackageManager">>),
          Insn("invoke-static Class;->forName", <<"v5">>, << >>),
          Insn("move-result-object", <<"v5">>, << >>),
          Insn("invoke-virtual Class;->getClassLoader", <<"v5">>, << >>),
          Insn("move-result-object", <<"v6">>, << >>),
          Insn("new-array", <<"v7", "v3">>, <<"[Ljava/lang/Class;">>),
          Insn("aput-object", <<"v5", "v7", "v2">>, << >>),
          Insn("new-instance", <<"v5">>, <<"Lcom/verify/signature/ProxyHookPMS;">>),
          Insn("invoke-direct ProxyHookPMS;-><init>", <<"v5", "v4", "p1", "p2", "v2">>, << >>),
          Insn("invoke-static Proxy;->newProxyInstance", <<"v6", "v7", "v5">>, << >>),
          Insn("move-result-object", <<"p1">>, << >>),
          Insn("invoke-virtual Field;->set", <<"v0", "v1", "p1">>, << >>),
          Insn("invoke-virtual Context;->getPackageManager", <<"p0">>, << >>),
          Insn("move-result-object", <<"p0">>, << >>),
          Insn("invoke-virtual Object;->getClass", <<"p0">>, << >>),
          Insn("move-result-object", <<"p2">>, << >>),
          Insn("const-string", <<"v0">>, <<"mPM">>),
          Insn("invoke-virtual Class;->getDeclaredField", <<"p2", "v0">>, << >>),
          Insn("move-result-object", <<"p2">>, << >>),
          Insn("invoke-virtual Field;->setAccessible", <<"p2", "v3">>, << >>),
          Insn("invoke-virtual Field;->set", <<"p2", "p0", "p1">>, << >>),
          Comment("# Log success"),
          Insn("const-string", <<"v0">>, <<"SIGN_HOOK">>),
          Insn("const-string", <<"v1">>, <<"HookServiceWraper: Hook installed successfully">>),
          Insn(LogD, <<"v0", "v1">>, << >>),
          Comment(":try_end_0"),
          Comment(".catch Ljava/lang/Exception; {:try_start_0 .. :try_end_0} :catch_0"),
          Insn("goto", << >>, <<":goto_0">>),
          Comment(":catch_0"),
          Insn("move-exception", <<"p0">>, << >>),
          Comment("# Log error"),
          Insn("const-string", <<"v0">>, <<"SIGN_HOOK">>),
          Insn("const-string", <<"v1">>, <<"HookServiceWraper: Error installing hook">>),
          Insn("invoke-static Log;->e", <<"v0", "v1", "p0">>, << >>),
          Insn("invoke-virtual Exception;->printStackTrace", <<"p0">>, << >>),
          Comment(":goto_0"),
          Insn("return-void", << >>, << >>),
          EndMethod >>

myApplicationTemplate ==
    << Tok("class", "Lcom/demo/repackage/MyApplication;", << >>, 0),
       Super("Landroid/app/Application;") >>
    \o InitMethod("Landroid/app/Application;")
    \o << Method(SigAttach), Locals(2),
          Insn("const-string", <<"v0">>, <<"SIGN_HOOK">>),
          Insn("const-string", <<"v1">>, <<"MyApplication.attachBaseContext called">>),
          Insn(LogD, <<"v0", "v1">>, << >>),
          Insn("const-string", <<"v0">>, <<"{SIGNATURE}">>),
          Insn("const-string", <<"v1">>, <<"{PACKAGE_NAME}">>),
          Insn(StartHookPMS, <<"p1", "v0", "v1">>, << >>),
          Insn("invoke-super", <<"p0", "p1">>, <<"Landroid/app/Application;", "->", SigAttach>>),
          Insn("return-void", << >>, << >>),
          EndMethod,
          Method("onCreate()V"), Locals(0),
          Insn("invoke-super", <<"p0">>, <<"Landroid/app/Application;", "->", "onCreate()V">>),
          Insn("return-void", << >>, << >>),
          EndMethod >>

\* content.replace(placeholder, value): the first occurrence only.
replacePlaceholder(content, placeholder, value) ==
    LET Has(tok) == tok.a = <<placeholder>>
        i == First({ix \in 1..Len(content) : Has(content[ix])})
    IN IF i = 0 THEN content ELSE [content EXCEPT ![i].a = value]

\* A generator that fills in the signature only.
createMyApplicationNoPackage(signature, pkgName) ==
    replacePlaceholder(myApplicationTemplate, "{SIGNATURE}", signature)

\* The text createMyApplication writes to smali/com/demo/repackage/MyApplication.smali.
createMyApplication(signature, pkgName) ==
    replacePlaceholder(replacePlaceholder(myApplicationTemplate, "{SIGNATURE}", signature),
                       "{PACKAGE_NAME}", pkgName)

(***************************************************************************)
(* Containers, decoded trees and paths                                     *)
(***************************************************************************)
\* A container: manifest document, class files by <<partition, class>>, the other
\* entries (res), the key that signed it, and whether the file is complete.
Apk(man, files, res, key) ==
    [man |-> man, files |-> files, res |-> res, key |-> key, intact |-> TRUE]

Partial == [man |-> << >>, files |-> << >>, res |-> "partial", key |-> "none", intact |-> FALSE]

\* Partition 1 is the directory smali, partition n is smali_classes<n>.
DirsOf(files) == {key[1] : key \in DOMAIN files}

findSmaliFile(files, className) ==
    LET dirs == {d \in DirsOf(files) : <<d, className>> \in DOMAIN files}
    IN IF dirs = {} THEN Null ELSE <<Min(dirs), className>>

\* Directory names of the decoded tree: smali for partition 1, smali_classes<n>
\* (n in decimal digits) for partition n.
RECURSIVE Digits(_)
Digits(n) == IF n < 10 THEN <<n>> ELSE Digits(n \div 10) \o <<n % 10>>
DirName(n) == IF n = 1 THEN <<"smali">> ELSE <<"smali_classes">> \o Digits(n)
readdirSync(files) == {DirName(d) : d \in DirsOf(files)}

\* parseInt(match[1], 10) of a run of digits
RECURSIVE parseInt(_)
parseInt(ds) ==
    IF ds = << >> THEN 0
    ELSE parseInt(SubSeq(ds, 1, Len(ds) - 1)) * 10 + ds[Len(ds)]

\* A selection that always takes the second partition.
nextSmaliDirSecond(files) == 2

\* The partition that receives ProxyHookPMS and HookServiceWraper.
nextSmaliDir(files) ==
    LET dirs == {d \in readdirSync(files) : d[1] = "smali_classes"}
        maxIndex == Max({parseInt(Tail(d)) : d \in dirs} \cup {1})
    IN IF dirs = {} THEN (IF <<"smali">> \in readdirSync(files) THEN 2 ELSE 1)
       ELSE maxIndex + 1

\* Writing a file of the decoded tree.
WriteFile(files, key, content) == (key :> content) @@ files

\* apkPath.replace('.apk', suffix + '.apk'): the first occurrence only.
replaceApk(path, suffix) ==
    LET IsExt(x) == x = ".apk"
        i == First({ix \in 1..Len(path) : IsExt(path[ix])})
    IN IF i = 0 THEN path
       ELSE SubSeq(path, 1, i - 1) \o <<suffix, ".apk">> \o SubSeq(path, i + 1, Len(path))

PathLower == <<"/apks/", "demo", ".apk">>
PathUpper == <<"/apks/", "demo", ".APK">>
PathDotDir == <<"/work", ".apk", ".d/", "demo", ".apk">>
InputPaths == {PathLower, PathUpper, PathDotDir}

\* The directory part of a path: everything up to its last separator.
dirname(path) ==
    SubSeq(path, 1, Max({0} \cup {i \in 1..Len(path) : path[i] \in {"/apks/", ".d/"}}))

\* ManifestEditor -an <name>: sets android:name of the <application> tag.
manifestEditor(doc, name) ==
    LET a == First({ix \in 1..Len(doc) : IsAppOpen(doc[ix])})
        NotAttr(tok) == tok.t # "attr"
        e == IF a = 0 THEN 0 ELSE First({ix \in a + 1..Len(doc) : NotAttr(doc[ix])})
        attrs == SubSeq(doc, a + 1, e - 1)
        kept == SelectSeq(attrs, LAMBDA tok : ~IsAndroidNameAttr(tok))
    IN SubSeq(doc, 1, a) \o << Attr("android:name", name) >> \o kept
       \o SubSeq(doc, e, Len(doc))

\* newManifest.replace(/<application/, '<application android:name="..."')
patchManifestText(content) ==
    LET a == First({ix \in 1..Len(content) : IsAppOpen(content[ix])})
    IN SubSeq(content, 1, a) \o << Attr("android:name", MyApplicationName) >>
       \o SubSeq(content, a + 1, Len(content))

HasAppTag(content) == First({ix \in 1..Len(content) : IsAppOpen(content[ix])}) # 0

(***************************************************************************)
(* State                                                                   *)
(***************************************************************************)
VARIABLES
    files,      \* the files outside the temporary directories: path -> container
    tmpDirs,    \* the temporary directories that exist, each <<prefix, job number>>
    jobNo,      \* number of jobs started so far
    pc,         \* position of the current job in injectAndResignApk
    job,        \* the local variables of the current job
    cmds,       \* external commands the current job has invoked, in order
    attempts,   \* injection strategies the current job has tried, in order
    result,     \* the SignResult last returned
    apkSigReader, \* ApkSigReader.jar as installed: whether it is there, whether it
                \* runs, and what it prints for the package
    parked      \* the other invocation of injectAndResignApk, suspended at an await:
                \* its pc, job, cmds, attempts and result

vars == <<files, tmpDirs, jobNo, pc, job, cmds, attempts, result, apkSigReader, parked>>

(***************************************************************************)
(* Signature extraction                                                    *)
(***************************************************************************)
ReaderStatus == {"missing", "failed", "ok"}
\* What the reader prints for a package signed with the original certificate.
CertOut == <<"3", "0", "8", "2", "A", "B", "\n">>

Whitespace == {" ", "\n"}
HexDigits == <<"0", "1", "2", "3", "4", "5", "6", "7", "8", "9", "a", "b", "c", "d", "e", "f">>
UpperCase == <<"A", "B", "C", "D", "E", "F", "G">>
LowerCase == <<"a", "b", "c", "d", "e", "f", "g">>

\* String.prototype.trim
trim(str) ==
    LET solid == {i \in 1..Len(str) : str[i] \notin Whitespace}
    IN IF solid = {} THEN << >> ELSE SubSeq(str, Min(solid), Max(solid))

\* String.prototype.toLowerCase
toLowerCase(str) ==
    [i \in 1..Len(str) |->
        IF \E k \in 1..Len(UpperCase) : UpperCase[k] = str[i]
        THEN LowerCase[CHOOSE k \in 1..Len(UpperCase) : UpperCase[k] = str[i]]
        ELSE str[i]]

\* /^[0-9a-fA-F]+$/.test(output)
IsHexString(output) ==
    /\ output # << >>
    /\ \A i \in 1..Len(output) :
          \E k \in 1..Len(HexDigits) :
             HexDigits[k] = output[i] \/ (k > 10 /\ UpperCase[k - 10] = output[i])

\* An extractor that gives no value at all when the reader is of no use.
getCertHexNoSentinel(reader, readable) ==
    IF reader.status = "ok" /\ readable /\ IsHexString(trim(reader.stdout))
    THEN toLowerCase(trim(reader.stdout))
    ELSE << >>

\* getCertHexUsingApkSig: '00' when the jar is missing, when running it throws, or
\* when its trimmed output is empty or not hexadecimal.
getCertHexUsingApkSig(reader, readable) ==
    IF reader.status = "missing" THEN Sentinel
    ELSE IF reader.status = "failed" \/ ~readable THEN Sentinel
    ELSE IF IsHexString(trim(reader.stdout)) THEN toLowerCase(trim(reader.stdout))
    ELSE Sentinel

\* Buffer.toString('hex') of a file's bytes
toHex(bytes, i) ==
    <<HexDigits[(bytes[i] \div 16) + 1], HexDigits[(bytes[i] % 16) + 1]>>
RECURSIVE bufferToHex(_)
bufferToHex(bytes) ==
    IF bytes = << >> THEN << >>
    ELSE toHex(bytes, 1) \o bufferToHex(Tail(bytes))

\* The legacy signature file META-INF/*.RSA of a container, if it has one: the
\* packages signed with the original key carry one, those signed by the
\* signing-block scheme alone do not.
metaInfCert(apk) ==
    IF apk.intact /\ apk.key = "origkey" THEN << <<48, 130, 171>> >> ELSE << >>

\* getCertRsaHex: the bytes of the first META-INF/*.RSA, *.DSA or *.EC entry in
\* lowercase hex, '00' when there is none or unzip fails.
getCertRsaHex(apk, readable) ==
    IF readable /\ metaInfCert(apk) # << >>
    THEN toLowerCase(bufferToHex(metaInfCert(apk)[1]))
    ELSE Sentinel

\* An extractor that turns to the legacy signature file when the reader is of no use.
getOriginalSignatureLegacy(reader, readable) ==
    IF getCertHexUsingApkSig(reader, readable) # Sentinel
    THEN getCertHexUsingApkSig(reader, readable)
    ELSE getCertRsaHex(files[job.apkPath], readable)

\* An extractor that asks the reader only once per job.
getOriginalSignatureOnce(reader, readable) ==
    IF job.extracted = << >> THEN getCertHexUsingApkSig(reader, readable) ELSE Sentinel

\* getOriginalSignature: the signing-block reader, and nothing else.
getOriginalSignature(reader, readable) == getCertHexUsingApkSig(reader, readable)

WarnNoSignature == <<"warning: cannot extract the original signature">>

\* A command run with execPromise: nothing is written to the log for it.
Cmd(stage, tool, ok) == [stage |-> stage, tool |-> tool, ok |-> ok, logged |-> FALSE]

\* A command run with execWithLog: "Executing: <command>" is logged before it runs.
execWithLog(stage, tool, ok) == [Cmd(stage, tool, ok) EXCEPT !.logged = TRUE]

NoResult == [success |-> FALSE, message |-> << >>, outputPath |-> Null]

NewJob(path, n, fs) ==
    [ apkPath |-> path,
      outputApk |-> replaceApk(path, "_hooked_signed"),
      tempDir |-> <<"apk-inject-", n>>,
      input |-> IF path \in DOMAIN fs THEN <<fs[path]>> ELSE << >>,
      signature |-> << >>,
      packageName |-> Null,
      tree |-> << >>,
      manifestModified |-> FALSE,
      binaryManifest |-> << >>,
      dist |-> << >>,
      merged |-> << >>,
      aligned |-> << >>,
      signedTemp |-> << >>,
      strategy |-> "none",
      target |-> << >>,
      helpers |-> 0,
      injectError |-> Null,
      patches |-> << >>,
      variant |-> Null,
      log |-> << >>,
      extracted |-> << >>,
      apktool |-> "apktool.jar",
      appClass |-> << >>,
      launchActivity |-> << >>,
      located |-> << >>,
      calls |-> << >>,
      missing |-> {} ]

\* Step 4 of injectHookCode: the two helper classes go to the next free partition.
writeHelpers(treeFiles) ==
    LET d == nextSmaliDir(treeFiles)
    IN WriteFile(WriteFile(treeFiles, <<d, ProxyHookPMSName>>, proxyHookPMS),
                 <<d, HookServiceWraperName>>, hookServiceWraper)

\* The class files of an input package.
ClassFiles(appShape, actShape) ==
    LET app == IF appShape = "missing" THEN << >>
               ELSE (<<1, FqApp>> :> MkClass("Landroid/app/Application;", SigAttach, appShape))
        act == IF actShape = "missing" THEN << >>
               ELSE (<<1, FqMain>> :> MkClass("Landroid/app/Activity;", SigClinit, actShape))
    IN app @@ act

InputApks ==
    { Apk(MkManifest(TRUE, an, TRUE), ClassFiles(sh, "absent"), "orig", "origkey") :
        an \in {RelApp, FqApp}, sh \in Shapes \cup {"missing"} }
    \cup
    { Apk(MkManifest(TRUE, an, TRUE), ClassFiles("missing", sh), "orig", "origkey") :
        an \in {Null, FrameworkApp}, sh \in Shapes \cup {"missing"} }
    \cup
    { Apk(MkManifest(TRUE, an, FALSE), ClassFiles("missing", "missing"), "orig", "origkey") :
        an \in {Null, FrameworkApp} }
    \cup
    { Apk(MkManifest(FALSE, Null, FALSE), ClassFiles("missing", "missing"), "orig", "origkey") }

\* Packages with further bytecode partitions, with and without classes in the
\* default one.
MaxDex == 5
LibName == <<"com.example.lib", ".", "Util">>
PartitionSets == (SUBSET (2..MaxDex)) \cup {{9, 10}, {2, 10}}
LibFiles(S) ==
    [key \in {<<d, LibName>> : d \in S} |-> MkClass("Ljava/lang/Object;", SigOnCreate, "absent")]
MultiDexApks ==
    { Apk(MkManifest(TRUE, FqApp, TRUE), ClassFiles("localsLow", "absent") @@ LibFiles(S),
          "orig", "origkey") : S \in PartitionSets \ {{}} }
    \cup
    { Apk(MkManifest(TRUE, Null, TRUE), LibFiles(S), "orig", "origkey") :
        S \in PartitionSets \ {{}} }

\* A package this tool has already hooked (ManifestSynthesis, binary patch).
HookedApk ==
    Apk(manifestEditor(MkManifest(TRUE, Null, TRUE), MyApplicationName),
        writeHelpers(WriteFile(ClassFiles("missing", "absent"), <<1, MyApplicationName>>,
                               createMyApplication(CertHex, PkgDemo))),
        "orig", "newkey")

\* The packages the whole pipeline is run on: one with a declared Application
\* class, one without.
PipelineApks ==
    { Apk(MkManifest(TRUE, FqApp, TRUE), ClassFiles("localsLow", "absent"), "orig", "origkey"),
      Apk(MkManifest(TRUE, Null, TRUE), ClassFiles("missing", "absent"), "orig", "origkey") }

Init ==
    /\ \E p \in InputPaths, a \in PipelineApks : files = (p :> a)
    /\ tmpDirs = {}
    /\ jobNo = 0
    /\ pc = "idle"
    /\ job = NewJob(Null, 0, << >>)
    /\ cmds = << >>
    /\ attempts = << >>
    /\ result = NoResult
    /\ apkSigReader \in [status : ReaderStatus, stdout : {CertOut}]
    /\ parked = << >>

InputReadable(j) == j.apkPath \in DOMAIN files /\ files[j.apkPath].intact

\* A finally block that forgets the working directory.
rmTempDirKept(dirs, j) == dirs

\* finally of injectAndResignApk: fs.rmSync(tempDir, { recursive: true, force: true }).
\* The files of the job inside the directory go with it.
rmTempDir(dirs, j) == dirs \ {j.tempDir}
Cleanup(j) ==
    [j EXCEPT !.tree = << >>, !.dist = << >>, !.merged = << >>,
              !.aligned = << >>, !.signedTemp = << >>]

\* catch (e) and finally: the job ends with a failure result carrying e.message.
\* The error texts the catch block copies into the result's message.
ErrText(tool) == <<"Command failed: ", tool>>
ErrNoPackage == <<"no package name in manifest and none from aapt">>
ErrNoAppFile == <<"cannot locate Application class file">>
ErrNoInjection == <<"cannot modify manifest and cannot inject Application">>
ErrWrite == <<"EACCES: permission denied">>

\* A catch block that drops e.message.
ThrowNoText(j, dirs, text) ==
    /\ job' = Cleanup(j)
    /\ tmpDirs' = rmTempDir(dirs, j)
    /\ result' = [success |-> FALSE, message |-> <<"processing failed">>, outputPath |-> Null]
    /\ pc' = "returned"

\* A failed stage whose error is never caught: the job stays where it failed.
ThrowHang(j, dirs, text) ==
    /\ job' = j
    /\ tmpDirs' = dirs
    /\ result' = result
    /\ pc' = "hung"

Throw(j, dirs, text) ==
    /\ job' = Cleanup(j)
    /\ tmpDirs' = rmTempDir(dirs, j)
    /\ result' = [success |-> FALSE, message |-> <<"processing failed: ">> \o text,
                  outputPath |-> Null]
    /\ pc' = "returned"

\* A stage that is entered again after it completed.
ContinueRetry(j, dirs, next) ==
    /\ job' = j
    /\ tmpDirs' = dirs
    /\ result' = result
    /\ pc' = pc

\* The stage completed: the job goes on to the next await.
Continue(j, dirs, next) ==
    /\ job' = j
    /\ tmpDirs' = dirs
    /\ result' = result
    /\ pc' = next

(***************************************************************************)
(* injectAndResignApk, one action per awaited stage                        *)
(***************************************************************************)
\* getJarToolPath(jarName): the path of the jar, '' when it is in none of the
\* three places searched.
JarToolPaths(jarName) == {"", jarName}

\* The caller starts a job on the package at the input path.
StartJob ==
    /\ pc \in {"idle", "returned"}
    /\ jobNo < MaxJobs
    /\ \E p \in DOMAIN files \cap InputPaths, apktool \in JarToolPaths("apktool.jar") :
         /\ job' = [NewJob(p, jobNo + 1, files) EXCEPT
                      !.apktool = apktool,
                      !.missing = IF apktool = "" THEN {"apktool.jar"} ELSE {}]
         /\ tmpDirs' = tmpDirs \cup {<<"apk-inject-", jobNo + 1>>}
    /\ jobNo' = jobNo + 1
    /\ pc' = "extract"
    /\ cmds' = << >>
    /\ attempts' = << >>
    /\ result' = NoResult
    /\ UNCHANGED <<files, apkSigReader, parked>>

\* getOriginalSignature / getCertHexUsingApkSig
Extract ==
    /\ pc = "extract"
    /\ \E originalSignature \in {getOriginalSignature(apkSigReader, InputReadable(job))} :
         /\ Continue([job EXCEPT
                        !.signature = originalSignature,
                        !.log = Append(@, IF originalSignature = << >>
                                             \/ originalSignature = Sentinel
                                          THEN WarnNoSignature
                                          ELSE <<"signature extracted, length ",
                                                 Len(originalSignature)>>)],
                     tmpDirs, "analyze")
         /\ cmds' = IF apkSigReader.status = "missing" THEN cmds
                    ELSE Append(cmds, Cmd("extract", "ApkSigReader",
                                          apkSigReader.status = "ok" /\ InputReadable(job)))
    /\ UNCHANGED <<files, jobNo, attempts, apkSigReader, parked>>

\* analyzeApk: the package name aapt reports, '' when it reports none.
Analyze ==
    /\ pc = "analyze"
    /\ \E aaptOk \in BOOLEAN :
         /\ Continue([job EXCEPT !.packageName =
                         IF aaptOk /\ InputReadable(job)
                         THEN matchPackage(files[job.apkPath].man) ELSE Null],
                     tmpDirs, "decompile")
         /\ cmds' = Append(cmds, Cmd("analyze", "aapt", aaptOk /\ InputReadable(job)))
    /\ UNCHANGED <<files, jobNo, attempts, apkSigReader, parked>>

\* apktool d -r -f: the decoded tree; -r leaves AndroidManifest.xml packed.
Decompile ==
    /\ pc = "decompile"
    /\ \E ok \in BOOLEAN :
         LET done == ok /\ job.apktool # "" /\ InputReadable(job)
         IN /\ cmds' = Append(cmds, execWithLog("decompile", "apktool d", done))
            /\ IF done
               THEN Continue([job EXCEPT !.tree =
                                 << [manifest |-> ManifestFile("binary", files[job.apkPath].man),
                                     files |-> files[job.apkPath].files] >>],
                             tmpDirs, "inject")
               ELSE Throw(job, tmpDirs, ErrText("apktool d"))
    /\ UNCHANGED <<files, jobNo, attempts, apkSigReader, parked>>

\* A planner in which ApplicationHook, too, cascades when the class file is missing.
injectionPlanCascade(appClass, appFileFound, injected, fallbackDone) ==
    LET first == IF appClass # Null THEN <<"ApplicationHook">> ELSE << >>
    IN IF appClass # Null /\ appFileFound
       THEN [ attempts |-> first, strategy |-> "ApplicationHook" ]
       ELSE IF injected
       THEN [ attempts |-> first \o <<"ManifestSynthesis">>, strategy |-> "ManifestSynthesis" ]
       ELSE [ attempts |-> first \o <<"ManifestSynthesis", "ActivityFallback">>,
              strategy |-> IF fallbackDone THEN "ActivityFallback" ELSE "none" ]

\* The branches of injectHookCode: which strategies are tried, in order, and which
\* one ends up applied ("none": the function throws).
\*   appClass      the Application class the manifest analyzer reports, Null if none
\*   appFileFound  findSmaliFile located that class
\*   injected      one of the two manifest patches took effect
\*   fallbackDone  the launch Activity was found and its class file patched
injectionPlan(appClass, appFileFound, injected, fallbackDone) ==
    IF appClass # Null
    THEN [ attempts |-> <<"ApplicationHook">>,
           strategy |-> IF appFileFound THEN "ApplicationHook" ELSE "none" ]
    ELSE IF injected
    THEN [ attempts |-> <<"ManifestSynthesis">>, strategy |-> "ManifestSynthesis" ]
    ELSE [ attempts |-> <<"ManifestSynthesis", "ActivityFallback">>,
           strategy |-> IF fallbackDone THEN "ActivityFallback" ELSE "none" ]

\* A plan B that does not look at the outcome of plan A.
textPatchAlways(binaryOk, isBinaryManifest) == ~isBinaryManifest

\* A plan B that does not look at the form of the manifest.
textPatchAnyForm(binaryOk, isBinaryManifest) == ~binaryOk

\* if (!injected) { if (!isBinaryManifest) { try { ... the textual substitution
textPatchAttempted(binaryOk, isBinaryManifest) == ~binaryOk /\ ~isBinaryManifest

\* injectHookCode on the decoded tree of job j.  The environment decides: axml, what
\* AXMLPrinter2 does; edit, what the ManifestEditor patch does; manifestWritable and
\* smaliWritable, whether writes to the manifest and to class files succeed.
\* Yields the error thrown (Null if none) and everything the function changed.
injectHookCode(j, axml, edit, manifestWritable, smaliWritable) ==
    LET tree == j.tree[1]
        buffer == tree.manifest
        binary == IsBinaryMagic(buffer)
        converted == binary /\ axml = "ok"
        manifestContent == IF converted THEN buffer.doc ELSE BufferToUtf8(buffer)
        isBinaryManifest == binary /\ ~(converted /\ manifestWritable)
        manifest1 == IF converted /\ manifestWritable
                     THEN ManifestFile("text", manifestContent) ELSE buffer
        cmds1 == IF binary /\ axml # "missing"
                 THEN << Cmd("inject", "AXMLPrinter2", axml = "ok") >> ELSE << >>
        pkgName == IF j.packageName # Null THEN j.packageName
                   ELSE matchPackage(manifestContent)
        appClass == extractApplicationName(manifestContent)
        \* 1. a declared Application class: inject into attachBaseContext
        smaliPathApp == IF appClass = Null THEN Null
                        ELSE findSmaliFile(tree.files, normalizeClassName(appClass, pkgName))
        hooked == WriteFile(tree.files, smaliPathApp,
                            injectCodeToSmali(tree.files[smaliPathApp], j.signature,
                                              pkgName, "attachBaseContext"))
        \* 2. no Application class: plan A, ManifestEditor on the packed manifest
        original == files[j.apkPath]
        editDone == IF edit = "ok" /\ ~(InputReadable(j) /\ HasAppTag(original.man))
                    THEN "editorFail" ELSE edit
        editDir == IF editDone = "noEditor" THEN {} ELSE {<<"manifest-edit-", j.tempDir[2]>>}
        cmdsEdit == IF editDone = "noEditor" THEN << >>
                    ELSE IF editDone = "unzipFail"
                    THEN << Cmd("inject", "unzip -p AndroidManifest.xml", FALSE) >>
                    ELSE << Cmd("inject", "unzip -p AndroidManifest.xml", TRUE),
                            execWithLog("inject", "ManifestEditor", editDone # "editorFail") >>
        binaryOk == editDone = "ok"
        \* plan B, the textual substitution
        textOk == /\ textPatchAttempted(binaryOk, isBinaryManifest)
                  /\ HasAppTag(manifestContent)
                  /\ manifestWritable
        injected == binaryOk \/ textOk
        manifest2 == IF textOk THEN ManifestFile("text", patchManifestText(manifestContent))
                     ELSE manifest1
        binaryManifest == IF binaryOk
                          THEN << manifestEditor(original.man, MyApplicationName) >>
                          ELSE << >>
        withMyApp == WriteFile(tree.files, <<1, MyApplicationName>>,
                               createMyApplication(j.signature, pkgName))
        \* 3. last resort: the static initializer of the launch Activity
        launchActivity == findLaunchActivity(manifestContent)
        smaliPathAct == IF launchActivity = Null THEN Null
                        ELSE findSmaliFile(tree.files, normalizeClassName(launchActivity, pkgName))
        clinit == WriteFile(tree.files, smaliPathAct,
                            injectCodeToSmali(tree.files[smaliPathAct], j.signature,
                                              pkgName, "staticBlock"))
        plan == injectionPlan(appClass, smaliPathApp # Null, injected,
                              smaliPathAct # Null /\ smaliWritable)
        triedSynthesis == \E i \in 1..Len(plan.attempts) : plan.attempts[i] = "ManifestSynthesis"
        cmdsAll == IF triedSynthesis THEN cmds1 \o cmdsEdit ELSE cmds1
        dirs == IF triedSynthesis THEN editDir ELSE {}
        manifestOut == IF triedSynthesis THEN manifest2 ELSE manifest1
        \* the manifest patches entered, in order, with the form of the decoded
        \* manifest file at that moment and whether the patch took effect
        patchA == IF editDone = "noEditor" THEN << >>
                  ELSE << [kind |-> "binary", form |-> manifest1.enc, ok |-> binaryOk] >>
        patchB == IF textPatchAttempted(binaryOk, isBinaryManifest)
                  THEN << [kind |-> "text", form |-> manifest1.enc, ok |-> textOk] >>
                  ELSE << >>
        patches == IF triedSynthesis THEN patchA \o patchB ELSE << >>
        Thrown(err, tried) ==
            [ throw |-> err, manifest |-> manifestOut, files |-> tree.files,
              manifestModified |-> FALSE, binaryManifest |-> << >>, attempts |-> tried,
              cmds |-> cmdsAll, newDirs |-> dirs, strategy |-> "none", target |-> << >>,
              helpers |-> 0, patches |-> patches ]
        Done(fs, mod, bin, tgt, helpers) ==
            [ throw |-> Null, manifest |-> manifestOut, files |-> fs,
              manifestModified |-> mod, binaryManifest |-> bin, attempts |-> plan.attempts,
              cmds |-> cmdsAll, newDirs |-> dirs, strategy |-> plan.strategy, target |-> tgt,
              helpers |-> helpers, patches |-> patches ]
    IN IF pkgName = Null
       THEN [ Thrown(ErrNoPackage, << >>) EXCEPT !.cmds = cmds1, !.newDirs = {},
                                                 !.manifest = manifest1,
                                                 !.patches = << >> ]
       ELSE IF plan.strategy = "ApplicationHook"
       THEN IF smaliWritable
            THEN Done(writeHelpers(hooked), FALSE, << >>, smaliPathApp, nextSmaliDir(hooked))
            ELSE Thrown(ErrWrite, plan.attempts)
       ELSE IF plan.strategy = "ManifestSynthesis"
       THEN IF smaliWritable
            THEN Done(writeHelpers(withMyApp), TRUE, binaryManifest, <<1, MyApplicationName>>,
                      nextSmaliDir(withMyApp))
            ELSE Thrown(ErrWrite, plan.attempts)
       ELSE IF plan.strategy = "ActivityFallback"
       THEN Done(clinit, FALSE, << >>, smaliPathAct, 0)
       ELSE IF plan.attempts = <<"ApplicationHook">>
       THEN Thrown(ErrNoAppFile \o normalizeClassName(appClass, pkgName), plan.attempts)
       ELSE Thrown(ErrNoInjection, plan.attempts)

\* The variant of injectCodeToSmali a strategy calls (its method argument).
variantOf(strategy) ==
    IF strategy = "ApplicationHook" THEN <<"attachBaseContext">>
    ELSE IF strategy = "ActivityFallback" THEN <<"staticBlock">>
    ELSE Null

AxmlOutcomes == {"missing", "failed", "ok"}
EditOutcomes == {"noEditor", "unzipFail", "editorFail", "noOutput", "ok"}

Inject ==
    /\ pc = "inject"
    /\ \E axml \in AxmlOutcomes, edit \in EditOutcomes,
          manifestWritable \in BOOLEAN, smaliWritable \in BOOLEAN :
         \E r \in {injectHookCode(job, axml, edit, manifestWritable, smaliWritable)} :
           \E j1 \in {[job EXCEPT !.tree = << [manifest |-> r.manifest, files |-> r.files] >>,
                                  !.manifestModified = r.manifestModified,
                                  !.binaryManifest = r.binaryManifest,
                                  !.strategy = r.strategy,
                                  !.target = r.target,
                                  !.helpers = r.helpers,
                                  !.injectError = r.throw,
                                  !.patches = r.patches,
                                  !.variant = variantOf(r.strategy)]} :
             /\ cmds' = cmds \o r.cmds
             /\ attempts' = r.attempts
             /\ IF r.throw = Null
                THEN Continue(j1, tmpDirs \cup r.newDirs, "recompile")
                ELSE Throw(j1, tmpDirs \cup r.newDirs, r.throw)
    /\ UNCHANGED <<files, jobNo, apkSigReader, parked>>

\* apktool b: a fresh container built from the decoded tree.
Recompile ==
    /\ pc = "recompile"
    /\ \E ok \in {b \in BOOLEAN : b => job.apktool # ""} :
         /\ cmds' = Append(cmds, execWithLog("recompile", "apktool b", ok))
         /\ IF ok
            THEN Continue([job EXCEPT !.dist =
                              << Apk(job.tree[1].manifest.doc, job.tree[1].files,
                                     "rebuilt", "none") >>],
                          tmpDirs, "merge")
            ELSE Throw(job, tmpDirs, ErrText("apktool b"))
    /\ UNCHANGED <<files, jobNo, attempts, apkSigReader, parked>>

\* A merge that updates the classes only and keeps the original manifest.
mergeDexOnly(original, newApk, updateManifest, binaryManifest) ==
    [original EXCEPT !.files = newApk.files]

\* A merge that takes the whole rebuilt container.
mergeWholeBuild(original, newApk, updateManifest, binaryManifest) == newApk

\* mergeDexIntoOriginalApk: a copy of the original, its classes*.dex (and manifest,
\* when modified) updated from the rebuilt container.
mergeDexIntoOriginalApk(original, newApk, updateManifest, binaryManifest) ==
    [original EXCEPT
        !.files = newApk.files,
        !.man = IF updateManifest
                THEN (IF binaryManifest # << >> THEN binaryManifest[1] ELSE newApk.man)
                ELSE @]

\* finally of mergeDexIntoOriginalApk: fs.rmSync(tempDexDir, ...)
rmDexDir(dirs, d) == dirs \ {d}

MergeOutcomes == {"copyFail", "unzipFail", "unzipManifestFail", "zipFail", "ok"}

Merge ==
    /\ pc = "merge"
    /\ \E o \in MergeOutcomes :
         LET copied == o # "copyFail" /\ InputReadable(job)
             fromBuild == job.manifestModified /\ job.binaryManifest = << >>
             out == IF ~copied THEN "copyFail"
                    ELSE IF o = "unzipManifestFail" /\ ~fromBuild THEN "ok" ELSE o
             dexDir == <<"dex-merge-", job.tempDir[2]>>
             run == IF out = "copyFail" THEN << >>
                    ELSE << execWithLog("merge", "unzip classes*.dex", out # "unzipFail") >>
                         \o (IF out # "unzipFail" /\ fromBuild
                             THEN << execWithLog("merge", "unzip AndroidManifest.xml",
                                         out # "unzipManifestFail") >>
                             ELSE << >>)
                         \o (IF out \in {"zipFail", "ok"}
                             THEN << execWithLog("merge", "zip -u -j", out = "ok") >>
                             ELSE << >>)
             dirs == IF copied THEN rmDexDir(tmpDirs \cup {dexDir}, dexDir) ELSE tmpDirs
         IN /\ cmds' = cmds \o run
            /\ IF out = "ok"
               THEN Continue([job EXCEPT !.merged =
                                 << mergeDexIntoOriginalApk(files[job.apkPath], job.dist[1],
                                        job.manifestModified, job.binaryManifest) >>],
                             dirs, "align")
               ELSE Throw(job, dirs, IF out = "copyFail"
                                     THEN <<"ENOENT: copyfile">>
                                     ELSE ErrText(run[Len(run)].tool))
    /\ UNCHANGED <<files, jobNo, attempts, apkSigReader, parked>>

\* zipalign -f -p 4, or a plain copy when zipalign is not installed.
\* An align stage that gives up when zipalign is not installed.
alignAbortsMissing(zipalign) == zipalign # "ok"

\* Whether the align stage throws: only when zipalign ran and failed.
alignAborts(zipalign) == zipalign = "failed"

Align ==
    /\ pc = "align"
    /\ \E zipalign \in {"missing", "failed", "ok"} :
         \E j1 \in {[job EXCEPT !.missing = IF zipalign = "missing"
                                             THEN @ \cup {"zipalign"} ELSE @]} :
            /\ cmds' = IF zipalign = "missing" THEN cmds
                       ELSE Append(cmds, execWithLog("align", "zipalign", zipalign = "ok"))
            /\ IF alignAborts(zipalign)
               THEN Throw(j1, tmpDirs, ErrText("zipalign"))
               ELSE Continue([j1 EXCEPT !.aligned = job.merged], tmpDirs, "sign")
    /\ UNCHANGED <<files, jobNo, attempts, apkSigReader, parked>>

Signed(apk) == [apk EXCEPT !.key = "newkey"]

\* resignApk on aligned.apk: signer is the tool found (apksigner script, apksigner.jar,
\* or the jarsigner fallback, which signs a copy in place and is not verified).
\* Yields the SignResult and the file left at aligned_signed.apk.
resignApk(apk, signer, signOk, verifyOk) ==
    LET signCmd == execWithLog("sign", signer, signOk)
        verifyCmd == execWithLog("sign", "apksigner verify", verifyOk)
    IN IF ~signOk
       THEN [ success |-> FALSE, message |-> <<"signing failed: ">> \o ErrText(signer),
              outputPath |-> Null, cmds |-> <<signCmd>>,
              file |-> IF signer = "jarsigner" THEN <<apk>> ELSE << >> ]
       ELSE IF signer # "jarsigner" /\ ~verifyOk
       THEN [ success |-> FALSE,
              message |-> <<"signing failed: ">> \o ErrText("apksigner verify"),
              outputPath |-> Null, cmds |-> <<signCmd, verifyCmd>>,
              file |-> << Signed(apk) >> ]
       ELSE [ success |-> TRUE, message |-> <<"signed">>,
              outputPath |-> <<"aligned", "_signed", ".apk">>,
              cmds |-> IF signer = "jarsigner" THEN <<signCmd>> ELSE <<signCmd, verifyCmd>>,
              file |-> << Signed(apk) >> ]

Signers == {"apksigner", "apksigner.jar", "jarsigner"}

\* A copy that reports success without writing the destination.
copyFileSyncLost(fs, src, dest, o) ==
    IF o = "removed" THEN [p \in DOMAIN fs \ {dest} |-> fs[p]]
    ELSE IF o = "partial" THEN (dest :> Partial) @@ fs
    ELSE fs

\* fs.copyFileSync(signedTemp, outputApk): a failed copy leaves the destination
\* untouched, removed, or partly written.
CopyOutcomes == {"ok", "untouched", "removed", "partial"}
copyFileSync(fs, src, dest, o) ==
    IF o = "ok" THEN (dest :> src) @@ fs
    ELSE IF o = "removed" THEN [p \in DOMAIN fs \ {dest} |-> fs[p]]
    ELSE IF o = "partial" THEN (dest :> Partial) @@ fs
    ELSE fs

\* The awaited resignApk and what follows it without another await: the copy of
\* the signed file to the output path, the return, and finally.
Sign ==
    /\ pc = "sign"
    /\ \E signer \in Signers, signOk \in BOOLEAN, verifyOk \in BOOLEAN,
          o \in {c \in CopyOutcomes :
                   c # "untouched" => \E p \in DOMAIN files : dirname(p) = dirname(job.outputApk)} :
         LET signResult == resignApk(job.aligned[1], signer, signOk, verifyOk)
             j1 == [job EXCEPT !.signedTemp = signResult.file,
                               !.missing = IF signer = "jarsigner"
                                           THEN @ \cup {"apksigner"} ELSE @]
         IN /\ cmds' = cmds \o signResult.cmds
            /\ IF ~signResult.success
               THEN /\ o = "untouched"
                    /\ files' = files
                    /\ Throw(j1, tmpDirs, signResult.message)
               ELSE /\ files' = copyFileSync(files, j1.signedTemp[1], job.outputApk, o)
                    /\ IF o = "ok"
                       THEN /\ job' = Cleanup(j1)
                            /\ tmpDirs' = rmTempDir(tmpDirs, j1)
                            /\ result' = [success |-> TRUE,
                                          message |-> <<"inject and sign succeeded">>,
                                          outputPath |-> job.outputApk]
                            /\ pc' = "returned"
                       ELSE Throw(j1, tmpDirs, <<"ENOSPC: copyfile">>)
    /\ UNCHANGED <<jobNo, attempts, apkSigReader, parked>>

Next ==
    \/ StartJob
    \/ Extract
    \/ Analyze
    \/ Decompile
    \/ Inject
    \/ Recompile
    \/ Merge
    \/ Align
    \/ Sign

Spec == Init /\ [][Next]_vars

\* Every awaited tool invocation returns, so a job that is at a stage leaves it,
\* for the next stage or for the end of the job. Only the stage's own action
\* changes pc there. Requests (StartJob) come from the user and need not come.
StageDone ==
    /\ pc \in {"extract", "analyze", "decompile", "inject", "recompile", "merge", "align",
               "sign"}
    /\ pc' \in {"analyze", "decompile", "inject", "recompile", "merge", "align", "sign",
                "returned"} \ {pc}
InitFair == Init /\ PathLower \in DOMAIN files
FairSpec == InitFair /\ [][Next]_vars /\ WF_pc(StageDone)

(***************************************************************************)
(* injectHookCode on its own: every input package, decoded, with the       *)
(* signature and package name the earlier stages can hand over; then the   *)
(* recompile and merge stages that consume what it returns.                *)
(***************************************************************************)
InitInject ==
    /\ \E a \in InputApks \cup MultiDexApks \cup {HookedApk}, enc \in {"binary", "text"},
          signature \in {Sentinel, CertHex}, packageName \in {Null, PkgDemo} :
         /\ files = (PathLower :> a)
         /\ job = [NewJob(PathLower, 1, files) EXCEPT
                     !.signature = signature,
                     !.packageName = packageName,
                     !.tree = << [manifest |-> ManifestFile(enc, a.man),
                                  files |-> a.files] >>]
    /\ tmpDirs = {<<"apk-inject-", 1>>}
    /\ jobNo = 1
    /\ pc = "inject"
    /\ cmds = << >>
    /\ attempts = << >>
    /\ result = NoResult
    /\ apkSigReader = [status |-> "ok", stdout |-> CertOut]
    /\ parked = << >>

NextInject ==
    \/ Inject
    \/ Recompile
    \/ Merge

SpecInject == InitInject /\ [][NextInject]_vars

(***************************************************************************)
(* injectCodeToSmali on its own: each of its four variants applied to      *)
(* class files whose target method is absent, declares .locals 0 to        *)
(* MaxLocals, or declares .registers.                                      *)
(***************************************************************************)
MaxLocals == 7
Variants == {"attachBaseContext", "onCreate", "providerOnCreate", "staticBlock"}

MkClassLocals(superCls, sig, n) ==
    << Super(superCls) >> \o InitMethod(superCls)
    \o << Method(sig), Locals(n), BodyInsn, Insn("return-void", << >>, << >>), EndMethod >>
    \o OtherMethod

SmaliClasses ==
    { MkClassLocals("Landroid/app/Application;", methodSigOf(v), n) :
        v \in Variants, n \in 0..MaxLocals }
    \cup
    { MkClass("Landroid/app/Activity;", methodSigOf(v), sh) : v \in Variants, sh \in Shapes }
    \cup
    { MkClass("Landroidx/multidex/MultiDexApplication;", SigAttach, sh) : sh \in Shapes }

InitSmali ==
    /\ \E c \in SmaliClasses, signature \in {Sentinel, CertHex} :
         /\ files = (PathLower :> Apk(MkManifest(TRUE, FqApp, TRUE), (<<1, FqApp>> :> c),
                                      "orig", "origkey"))
         /\ job = [NewJob(PathLower, 1, files) EXCEPT
                     !.signature = signature,
                     !.packageName = PkgDemo,
                     !.tree = << [manifest |-> ManifestFile("binary", files[PathLower].man),
                                  files |-> files[PathLower].files] >>,
                     !.target = <<1, FqApp>>]
    /\ tmpDirs = {<<"apk-inject-", 1>>}
    /\ jobNo = 1
    /\ pc = "smali"
    /\ cmds = << >>
    /\ attempts = << >>
    /\ result = NoResult
    /\ apkSigReader = [status |-> "ok", stdout |-> CertOut]
    /\ parked = << >>

\* One call injectCodeToSmali(smaliPath, signature, pkgName, method): the class file
\* is read, patched and written back.
PatchClass ==
    /\ pc = "smali"
    /\ \E method \in Variants :
         job' = [job EXCEPT
                   !.tree[1].files[job.target] =
                       injectCodeToSmali(@, job.signature, job.packageName, method),
                   !.variant = <<method>>]
    /\ pc' = "patched"
    /\ UNCHANGED <<files, tmpDirs, jobNo, cmds, attempts, result, apkSigReader, parked>>

NextSmali == PatchClass

SpecSmali == InitSmali /\ [][NextSmali]_vars

(***************************************************************************)
(* getOriginalSignature on its own: called up to MaxExtract times on one   *)
(* package, for every output of the reader up to MaxOut characters.        *)
(***************************************************************************)
MaxOut == 3
MaxExtract == 2
OutChars == {"0", "a", "B", "g", " "}
ReaderOutputs == UNION {[1..n -> OutChars] : n \in 0..MaxOut}
ExtractApks ==
    { Apk(MkManifest(TRUE, FqApp, TRUE), ClassFiles("localsLow", "absent"), "orig", k) :
        k \in {"origkey", "v2key"} }

InitExtract ==
    /\ \E a \in ExtractApks : files = (PathLower :> a)
    /\ apkSigReader \in [status : ReaderStatus, stdout : ReaderOutputs]
    /\ parked = << >>
    /\ job = NewJob(PathLower, 1, files)
    /\ tmpDirs = {}
    /\ jobNo = 1
    /\ pc = "extract"
    /\ cmds = << >>
    /\ attempts = << >>
    /\ result = NoResult

\* One call getOriginalSignature(apkPath); the value it returns is kept.
GetOriginalSignature ==
    /\ pc = "extract"
    /\ Len(job.extracted) < MaxExtract
    /\ job' = [job EXCEPT !.extracted =
                  Append(@, getOriginalSignature(apkSigReader, InputReadable(job)))]
    /\ UNCHANGED <<files, tmpDirs, jobNo, pc, cmds, attempts, result, apkSigReader, parked>>

NextExtract == GetOriginalSignature

SpecExtract == InitExtract /\ [][NextExtract]_vars

(***************************************************************************)
(* extractApplicationName on its own: manifests whose <application> tag    *)
(* has or lacks android:name and has up to MaxChildren child elements.     *)
(***************************************************************************)
MaxChildren == 2

ManifestDocs ==
    LET Child(tag, name) == << Open(tag), Attr("android:name", name), Close(tag) >>
        Children == { Child("uses-library", <<"org.apache.http.legacy">>),
                      Child("property", <<"com.example.demo", ".", "FLAG">>),
                      Child("meta-data", <<"com.example.demo", ".", "KEY">>),
                      PlainActivityDoc,
                      LaunchActivityDoc(RelMain),
                      LaunchAliasDoc(<<".", "Alias">>, RelMain) }
        Concat[n \in 0..MaxChildren] ==
            IF n = 0 THEN { << >> }
            ELSE { c \o rest : c \in Children, rest \in Concat[n - 1] }
    IN { << Open("manifest"), Attr("package", PkgDemo), Open("application") >>
         \o (IF appName = Null THEN << >> ELSE << Attr("android:name", appName) >>)
         \o << Attr("android:label", <<"@", "string/app_name">>) >>
         \o children \o << Close("application"), Close("manifest") >> :
           appName \in {Null, RelApp, BareApp, FqApp, FrameworkApp},
           children \in UNION {Concat[n] : n \in 0..MaxChildren} }

InitManifest ==
    /\ \E doc \in ManifestDocs :
         files = (PathLower :> Apk(doc, ClassFiles("localsLow", "localsLow"), "orig", "origkey"))
    /\ job = NewJob(PathLower, 1, files)
    /\ tmpDirs = {}
    /\ jobNo = 1
    /\ pc = "manifest"
    /\ cmds = << >>
    /\ attempts = << >>
    /\ result = NoResult
    /\ apkSigReader = [status |-> "ok", stdout |-> CertOut]
    /\ parked = << >>

\* One call extractApplicationName(manifestContent) on the manifest as text; the
\* value it returns is kept.
ExtractApplicationName ==
    /\ pc = "manifest"
    /\ job' = [job EXCEPT !.appClass = << extractApplicationName(job.input[1].man) >>]
    /\ pc' = "analyzed"
    /\ UNCHANGED <<files, tmpDirs, jobNo, cmds, attempts, result, apkSigReader, parked>>

\* One call findLaunchActivity(manifestContent) on the manifest as text; the
\* value it returns is kept.
FindLaunchActivity ==
    /\ pc \in {"manifest", "analyzed"}
    /\ job.launchActivity = << >>
    /\ job' = [job EXCEPT !.launchActivity = << findLaunchActivity(job.input[1].man) >>]
    /\ UNCHANGED <<files, tmpDirs, jobNo, pc, cmds, attempts, result, apkSigReader, parked>>

\* const fullClassName = normalizeClassName(name, pkgName);
\* const smaliPath = findSmaliFile(decodeDir, fullClassName);
\* for the Application class and for the launch Activity; each name is kept with
\* the path found for it.
LocateClassFiles ==
    /\ pc = "analyzed"
    /\ job.launchActivity # << >>
    /\ LET pkgName == matchPackage(job.input[1].man)
           names == SelectSeq(job.appClass \o job.launchActivity, LAMBDA n : n # Null)
           Locate(n) == [name |-> n,
                         path |-> findSmaliFile(job.input[1].files,
                                                normalizeClassName(n, pkgName))]
       IN job' = [job EXCEPT !.located = [x \in 1..Len(names) |-> Locate(names[x])]]
    /\ pc' = "located"
    /\ UNCHANGED <<files, tmpDirs, jobNo, cmds, attempts, result, apkSigReader, parked>>

NextManifest == ExtractApplicationName \/ FindLaunchActivity \/ LocateClassFiles

SpecManifest == InitManifest /\ [][NextManifest]_vars

(***************************************************************************)
(* ProxyHookPMS.invoke in the instrumented application: the calls the      *)
(* package-manager proxy receives, and what it hands back for each.        *)
(***************************************************************************)
MaxCalls == 2

\* method.invoke(base, args): what the wrapped package-manager object answers.
\* signatures is filled in only when the flags ask for it.
BaseReturn(name, args) ==
    IF name = "getPackageInfo"
    THEN [ kind |-> "return", type |-> "PackageInfo", pkg |-> args[1],
           signatures |-> IF (args[2].value \div 64) % 2 = 1 THEN << <<"orig-cert">> >>
                          ELSE << >> ]
    ELSE [ kind |-> "return", type |-> name, pkg |-> args[1], signatures |-> << >> ]

\* ProxyHookPMS.invoke(proxy, method, args), instruction by instruction from the
\* template: name test, check-cast of args[0] and args[1], flag test, package
\* test, then either the patched PackageInfo or the pass-through at :cond_0.
invoke(SIGN, appPkgName, name, args) ==
    LET Thrown(exception) ==
            [ kind |-> "throw", type |-> exception, pkg |-> << >>, signatures |-> << >> ]
    IN
    IF name # "getPackageInfo" THEN BaseReturn(name, args)
    ELSE IF args[2].class # "java.lang.Integer" THEN Thrown("ClassCastException")
    ELSE IF (args[2].value \div 64) % 2 = 0 THEN BaseReturn(name, args)
    ELSE IF appPkgName # args[1] THEN BaseReturn(name, args)
    ELSE LET info == BaseReturn(name, args)
         IN IF info.signatures = << >> THEN Thrown("ArrayIndexOutOfBoundsException")
            ELSE [info EXCEPT !.signatures[1] = SIGN]

InitProxy ==
    /\ files = (PathLower :> Apk(MkManifest(TRUE, FqApp, TRUE),
                                 ClassFiles("localsLow", "absent"), "orig", "origkey"))
    /\ \E signature \in {Sentinel, CertHex} :
         job = [NewJob(PathLower, 1, files) EXCEPT !.signature = signature,
                                                   !.packageName = PkgDemo]
    /\ tmpDirs = {}
    /\ jobNo = 1
    /\ pc = "hooked"
    /\ cmds = << >>
    /\ attempts = << >>
    /\ result = NoResult
    /\ apkSigReader = [status |-> "ok", stdout |-> CertOut]
    /\ parked = << >>

\* One call through the proxy; the call and what came back are kept. The flags
\* arrive boxed as the platform boxes them: an Integer, or a Long where the
\* package-manager interface declares `long flags`.
InvokeProxy ==
    /\ pc = "hooked"
    /\ Len(job.calls) < MaxCalls
    /\ \E name \in {"getPackageInfo", "getApplicationInfo", "getInstalledPackages"},
          pkg \in {PkgDemo, <<"com.other">>},
          flags \in [class : {"java.lang.Integer", "java.lang.Long"},
                     value : {0, 64, 65, 128}] :
         job' = [job EXCEPT !.calls =
                    Append(@, [ name |-> name, args |-> <<pkg, flags>>,
                                returned |-> invoke(job.signature, job.packageName,
                                                    name, <<pkg, flags>>) ])]
    /\ UNCHANGED <<files, tmpDirs, jobNo, pc, cmds, attempts, result, apkSigReader, parked>>

NextProxy == InvokeProxy

SpecProxy == InitProxy /\ [][NextProxy]_vars

(***************************************************************************)
(* Two invocations of injectAndResignApk in one process (the IPC handler   *)
(* awaits each call on its own): one runs until its next await, where the  *)
(* event loop may resume the other.                                        *)
(***************************************************************************)
IdleInvocation ==
    [ pc |-> "idle", job |-> NewJob(Null, 0, << >>), cmds |-> << >>, attempts |-> << >>,
      result |-> NoResult ]

ConcurrentApk ==
    Apk(MkManifest(TRUE, FqApp, TRUE), ClassFiles("localsLow", "absent"), "orig", "origkey")

InitConcurrent ==
    /\ files \in { (PathLower :> ConcurrentApk),
                   (PathLower :> ConcurrentApk) @@ (PathUpper :> ConcurrentApk) }
    /\ tmpDirs = {}
    /\ jobNo = 0
    /\ pc = "idle"
    /\ job = NewJob(Null, 0, << >>)
    /\ cmds = << >>
    /\ attempts = << >>
    /\ result = NoResult
    /\ apkSigReader = [status |-> "ok", stdout |-> CertOut]
    /\ parked = << IdleInvocation >>

\* The running invocation is suspended at its await and the other one resumes.
Yield ==
    /\ parked # << >>
    /\ parked' = << [pc |-> pc, job |-> job, cmds |-> cmds, attempts |-> attempts,
                     result |-> result] >>
    /\ pc' = parked[1].pc
    /\ job' = parked[1].job
    /\ cmds' = parked[1].cmds
    /\ attempts' = parked[1].attempts
    /\ result' = parked[1].result
    /\ UNCHANGED <<files, tmpDirs, jobNo, apkSigReader>>

\* The runs looked at: the external commands of the stages before signing all
\* succeed; signing, verification and the final copy may fail.
EarlyToolsWork == \A i \in 1..Len(cmds) : cmds[i].stage # "sign" => cmds[i].ok

NextConcurrent ==
    \/ StartJob
    \/ Extract /\ EarlyToolsWork'
    \/ Analyze /\ EarlyToolsWork'
    \/ Decompile /\ EarlyToolsWork'
    \/ Inject /\ EarlyToolsWork'
    \/ Recompile /\ EarlyToolsWork'
    \/ Merge /\ EarlyToolsWork'
    \/ Align /\ EarlyToolsWork'
    \/ Sign
    \/ Yield

SpecConcurrent == InitConcurrent /\ [][NextConcurrent]_vars

(***************************************************************************)
(* Properties                                                              *)
(***************************************************************************)
Returned == pc = "returned"
Tried(s) == \E i \in 1..Len(attempts) : attempts[i] = s
ContainsText(message, text) ==
    \E k \in 0..(Len(message) - Len(text)) : SubSeq(message, k + 1, k + Len(text)) = text
StageNo(stage) ==
    IF stage = "extract" THEN 1 ELSE IF stage = "analyze" THEN 2
    ELSE IF stage = "decompile" THEN 3 ELSE IF stage = "inject" THEN 4
    ELSE IF stage = "recompile" THEN 5 ELSE IF stage = "merge" THEN 6
    ELSE IF stage = "align" THEN 7 ELSE 8
LastCmd == cmds[Len(cmds)]

\* What a manifest document declares, read off its structure: the android:name among
\* the attributes of the <application> tag itself, Null if there is none.
DeclaredApplication(doc) ==
    LET a == First({ix \in 1..Len(doc) : IsAppOpen(doc[ix])})
        rest == {ix \in a + 1..Len(doc) : doc[ix].t # "attr"}
        e == IF rest = {} THEN Len(doc) + 1 ELSE Min(rest)
        names == {ix \in a + 1..e - 1 : IsAndroidNameAttr(doc[ix])}
    IN IF a = 0 \/ names = {} THEN Null ELSE doc[Min(names)].v
DeclaresSubclass(doc) == DeclaredApplication(doc) \notin {Null, FrameworkApp}

\* C1: whenever a job returns success = false, no file exists at the job's output
\* path (the input path with the _hooked_signed suffix), after any sequence of
\* earlier jobs and whichever stage failed.
C1_NoOutputAfterFailure ==
    (Returned /\ ~result.success) => job.outputApk \notin DOMAIN files

\* C2: once a job has returned, on success or after the failure of any stage, its
\* apk-inject-* working directory no longer exists; nor does that of any earlier job.
C2_WorkDirRemoved ==
    \A n \in 1..jobNo :
        (n < jobNo \/ Returned) => <<"apk-inject-", n>> \notin tmpDirs
C2_Witness ==
    /\ Returned /\ jobNo = 2 /\ ~result.success
    /\ cmds # << >> /\ LastCmd.stage = "merge" /\ ~LastCmd.ok

\* C3: when a job returns, every temporary directory created while it ran
\* (apk-inject-*, manifest-edit-*, dex-merge-*) has been deleted.
C3_NothingLeftBehind ==
    Returned => \A d \in tmpDirs : d[2] # jobNo

\* C4 as stated: if an external command of any stage from decompile to sign fails,
\* no command of a later stage is invoked and the job returns success = false with
\* a message that contains the command's error text.
C4_AnyCommandFailureAborts ==
    \A i \in 1..Len(cmds) :
        (StageNo(cmds[i].stage) >= 3 /\ ~cmds[i].ok) =>
            /\ \A k \in i + 1..Len(cmds) : StageNo(cmds[k].stage) <= StageNo(cmds[i].stage)
            /\ Returned => /\ ~result.success
                           /\ ContainsText(result.message, ErrText(cmds[i].tool))

\* C4 amended: a failing command of the decompile, recompile, merge, align or sign
\* stage is the last command the job invokes, and an error thrown by the inject stage
\* keeps every later stage from running; in both cases the job returns success = false
\* with a message that contains the error text.  (A failing command inside the inject
\* stage is caught there and the next fallback is tried.)
C4_StageFailureAborts ==
    /\ \A i \in 1..Len(cmds) :
         (cmds[i].stage \in {"decompile", "recompile", "merge", "align", "sign"}
          /\ ~cmds[i].ok) =>
            /\ i = Len(cmds)
            /\ Returned
            /\ ~result.success
            /\ ContainsText(result.message, ErrText(cmds[i].tool))
    /\ job.injectError # Null =>
         /\ Returned
         /\ ~result.success
         /\ ContainsText(result.message, job.injectError)
         /\ \A k \in 1..Len(cmds) : StageNo(cmds[k].stage) <= 4
C4_Witness ==
    /\ Returned /\ cmds # << >>
    /\ LastCmd.stage = "align" /\ ~LastCmd.ok
    /\ ContainsText(result.message, ErrText("zipalign"))

\* C5: the result is never partially populated: success = true comes with an output
\* path at which a file exists when the call returns, success = false with no
\* output path.
C5_ResultComplete ==
    Returned =>
        /\ result.success => /\ result.outputPath # Null
                             /\ result.outputPath \in DOMAIN files
        /\ ~result.success => result.outputPath = Null
C5_Witness ==
    /\ Returned /\ result.success
    /\ result.outputPath = job.outputApk
    /\ result.outputPath \in DOMAIN files

\* C6 as stated: the strategies are tried in the order ApplicationHook,
\* ManifestSynthesis, ActivityFallback; when ApplicationHook cannot be applied
\* ManifestSynthesis is attempted, when ManifestSynthesis cannot patch the manifest
\* ActivityFallback is attempted, and the injection-impossible error comes only after
\* the strategies have failed.
C6_EveryStrategyCascades ==
    /\ \A i \in 1..Len(attempts) : \A k \in i + 1..Len(attempts) :
         <<attempts[i], attempts[k]>> \in
            { <<"ApplicationHook", "ManifestSynthesis">>,
              <<"ApplicationHook", "ActivityFallback">>,
              <<"ManifestSynthesis", "ActivityFallback">> }
    /\ (Tried("ApplicationHook") /\ job.strategy # "ApplicationHook")
          => Tried("ManifestSynthesis")
    /\ (Tried("ManifestSynthesis") /\ job.strategy # "ManifestSynthesis"
        /\ job.injectError # ErrWrite)
          => Tried("ActivityFallback")
    /\ job.injectError = ErrNoInjection
          => Tried("ManifestSynthesis") /\ Tried("ActivityFallback")

\* C6 amended: the order is fixed, but only ManifestSynthesis cascades.  When
\* ApplicationHook is tried and cannot be applied the job fails at once, with no other
\* strategy tried and the manifest untouched; when ManifestSynthesis cannot patch the
\* manifest ActivityFallback is tried; the injection-impossible error comes only
\* after ManifestSynthesis and ActivityFallback have both failed.
C6_OnlySynthesisCascades ==
    /\ attempts \in { << >>, <<"ApplicationHook">>, <<"ManifestSynthesis">>,
                      <<"ManifestSynthesis", "ActivityFallback">> }
    /\ (Tried("ApplicationHook") /\ job.strategy # "ApplicationHook") =>
          /\ attempts = <<"ApplicationHook">>
          /\ Returned /\ ~result.success
          /\ \/ job.injectError = ErrWrite
             \/ SubSeq(job.injectError, 1, 1) = ErrNoAppFile
          /\ ~job.manifestModified /\ job.binaryManifest = << >>
    /\ (Tried("ManifestSynthesis") /\ job.strategy # "ManifestSynthesis"
        /\ job.injectError # ErrWrite)
          => attempts = <<"ManifestSynthesis", "ActivityFallback">>
    /\ job.injectError = ErrNoInjection
          => /\ attempts = <<"ManifestSynthesis", "ActivityFallback">>
             /\ job.strategy = "none" /\ ~job.manifestModified
    /\ job.strategy = "ApplicationHook" => attempts = <<"ApplicationHook">>
    /\ job.strategy = "ManifestSynthesis" => attempts = <<"ManifestSynthesis">>
    /\ job.strategy = "ActivityFallback"
          => attempts = <<"ManifestSynthesis", "ActivityFallback">>
C6_Witness ==
    /\ Returned /\ ~result.success
    /\ attempts = <<"ApplicationHook">>
    /\ job.injectError # Null
    /\ SubSeq(job.injectError, 1, 1) = ErrNoAppFile
    /\ DeclaresSubclass(job.input[1].man)

\* C7: ManifestSynthesis is selected only when the package's manifest declares no
\* Application subclass, and a declared Application class is never replaced in the
\* merged container; also when the manifest conversion fails or is unavailable.
C7_SynthesisOnlyWithoutApplication ==
    /\ job.strategy = "ManifestSynthesis" => ~DeclaresSubclass(job.input[1].man)
    /\ (job.merged # << >> /\ DeclaresSubclass(job.input[1].man))
          => DeclaredApplication(job.merged[1].man) = DeclaredApplication(job.input[1].man)

\* C8: after an injection through ApplicationHook that completed without error,
\* attachBaseContext(Context) of the patched class contains exactly one call to
\* HookServiceWraper.startHookPMS and declares at least 2 registers.
C8_OneInstallerCall ==
    (pc = "recompile" /\ job.strategy = "ApplicationHook") =>
        LET content == job.tree[1].files[job.target]
        IN /\ CallsIn(content, SigAttach) = 1
           /\ DeclOf(content, SigAttach) # Null
           /\ DeclOf(content, SigAttach)[2] >= 2

C10_FallbackIntoClinit ==
    /\ Tried("ActivityFallback") => ~job.manifestModified /\ job.binaryManifest = << >>
    /\ (pc = "recompile" /\ job.strategy = "ActivityFallback") =>
          /\ job.target[2] = FqMain
          /\ CallsIn(job.tree[1].files[job.target], SigClinit) >= 1
    /\ (Tried("ActivityFallback") /\ job.strategy # "ActivityFallback") =>
          Returned /\ ~result.success

PatchOf(kind) == {i \in 1..Len(job.patches) : job.patches[i].kind = kind}

Before == job.input[1].files[job.target]
After == job.tree[1].files[job.target]
TargetSig == methodSigOf(job.variant[1])

\* C12: when the target method exists and declares .locals N, after the patch it
\* declares .locals max(N, m), with m = 6 for the static initializer, 3 for the
\* content-provider variant and 2 for attachBaseContext and onCreate.
C12_LocalsRaisedToMinimum ==
    (pc = "patched" /\ DeclOf(Before, TargetSig) # Null
     /\ DeclOf(Before, TargetSig)[1] = "locals") =>
        LET N == DeclOf(Before, TargetSig)[2]
            m == IF job.variant[1] = "staticBlock" THEN 6
                 ELSE IF job.variant[1] = "providerOnCreate" THEN 3 ELSE 2
        IN DeclOf(After, TargetSig) = <<"locals", IF N >= m THEN N ELSE m>>
C12_Witness ==
    /\ pc = "patched" /\ job.variant = <<"staticBlock">>
    /\ DeclOf(Before, SigClinit) = <<"locals", 4>>
    /\ DeclOf(After, SigClinit) = <<"locals", 6>>

\* Local registers by number: VRegs[n + 1] is the name of register n.
VRegs == <<"v0", "v1", "v2", "v3", "v4", "v5", "v6", "v7">>
RegNo(r) == (CHOOSE i \in 1..Len(VRegs) : VRegs[i] = r) - 1
\* The local registers referenced between two lines of a class file.
UsedIn(content, a, b) ==
    {r \in {VRegs[i] : i \in 1..Len(VRegs)} :
        \E x \in a..b : \E k \in 1..Len(content[x].v) : content[x].v[k] = r}
MethodsOf(content) == {i \in 1..Len(content) : content[i].t = "method"}
EndOf(content, i) == First({ix \in i + 1..Len(content) : IsEnd(content[ix])})
\* The .locals line of the method starting at line i, 0 if it has none.
LocalsLineOf(content, i) ==
    First({ix \in i + 1..EndOf(content, i) : IsLocals(content[ix])})
\* The method starting at line i declares at least the local registers it uses.
LocalsCover(content, i) ==
    /\ EndOf(content, i) # 0
    /\ LocalsLineOf(content, i) # 0
    /\ Cardinality(UsedIn(content, i, EndOf(content, i))) <= content[LocalsLineOf(content, i)].n
    /\ \A r \in UsedIn(content, i, EndOf(content, i)) :
          RegNo(r) < content[LocalsLineOf(content, i)].n
GeneratedNames == {MyApplicationName, ProxyHookPMSName, HookServiceWraperName}
\* The methods of a class file of the decoded tree that the job generated or patched.
JobMethods(key, content) ==
    {i \in MethodsOf(content) :
        \/ key[2] \in GeneratedNames
        \/ \E x \in i..EndOf(content, i) : IsInstallerCall(content[x])}

\* C13: every method the job patches or creates declares at least as many .locals
\* as the distinct v-registers its block references: in the generated classes, in
\* the methods patched in the decoded tree, and for each of the four variants of
\* injectCodeToSmali applied to each class file of the package.
C13_LocalsCoverRegisters ==
    /\ job.tree # Null =>
          \A key \in DOMAIN job.tree[1].files :
             \A i \in JobMethods(key, job.tree[1].files[key]) :
                LocalsCover(job.tree[1].files[key], i)
    /\ \A key \in DOMAIN job.input[1].files : \A method \in Variants :
          \E c \in {injectCodeToSmali(job.input[1].files[key], job.signature,
                                      job.packageName, method)} :
             \A i \in JobMethods(key, c) : LocalsCover(c, i)
C13_Witness ==
    /\ pc = "recompile" /\ job.strategy = "ApplicationHook"
    /\ \E key \in DOMAIN job.tree[1].files :
          /\ key[2] = HookServiceWraperName
          /\ Cardinality(UsedIn(job.tree[1].files[key], 1, Len(job.tree[1].files[key]))) = 8
    /\ DeclOf(job.input[1].files[job.target], SigAttach) = <<"locals", 0>>
    /\ DeclOf(job.tree[1].files[job.target], SigAttach) = <<"locals", 2>>
    /\ Cardinality(UsedIn(job.tree[1].files[job.target], 1,
                          Len(job.tree[1].files[job.target]))) = 2

\* C14: the merged container is the original with only its classes taken from the
\* rebuilt container, and its manifest too only when the manifest was modified:
\* the other entries are those of the original, and with an unmodified manifest
\* (ApplicationHook, ActivityFallback) the manifest entry is the original one.
C14_MergeFrame ==
    (job.merged # Null /\ job.apkPath \in DOMAIN files) =>
        LET original == files[job.apkPath]
            merged == job.merged[1]
        IN /\ merged.res = original.res
           /\ merged.key = original.key
           /\ merged.intact = original.intact
           /\ merged.files = job.dist[1].files
           /\ ~job.manifestModified => merged.man = original.man
           /\ job.strategy \in {"ApplicationHook", "ActivityFallback"} =>
                 merged.man = original.man
           /\ job.manifestModified =>
                 merged.man = IF job.binaryManifest # Null THEN job.binaryManifest[1]
                              ELSE job.dist[1].man
C14_Witness ==
    /\ pc = "align" /\ job.strategy = "ApplicationHook" /\ job.merged # Null
    /\ job.dist[1].res # files[job.apkPath].res
    /\ job.merged[1].res = files[job.apkPath].res
    /\ job.merged[1].files # files[job.apkPath].files
    /\ job.merged[1].man = files[job.apkPath].man

\* C15: the partition chosen for the helper classes is one more than the highest
\* existing partition number, the unlabeled default partition counting as 1, and
\* it is none of the existing partitions.
C15_NextPartition ==
    (job.tree # Null /\ job.helpers # 0) =>
        LET treeFiles == job.tree[1].files
            existing == {key[1] : key \in {k \in DOMAIN treeFiles :
                                             k[2] \notin {ProxyHookPMSName, HookServiceWraperName}
                                             \/ k \in DOMAIN job.input[1].files}}
            highest == IF existing = {} THEN 0
                       ELSE CHOOSE d \in existing : \A e \in existing : e <= d
        IN /\ job.helpers = highest + 1
           /\ job.helpers \notin existing
           /\ <<job.helpers, ProxyHookPMSName>> \in DOMAIN treeFiles
           /\ <<job.helpers, HookServiceWraperName>> \in DOMAIN treeFiles
           /\ DirsOf(job.input[1].files) = {1} => job.helpers = 2
           /\ DirsOf(job.input[1].files) = {1, 2, 5} => job.helpers = 6
C15_Witness ==
    /\ pc = "recompile"
    /\ DirsOf(job.input[1].files) = {1, 2, 5}
    /\ job.helpers = 6
    /\ <<6, HookServiceWraperName>> \in DOMAIN job.tree[1].files

\* C16: every class file the job generates (ProxyHookPMS, HookServiceWraper and,
\* in ManifestSynthesis, MyApplication) lies in the newly selected partition, and
\* in no partition that already held classes of the package.
C16_GeneratedInNewPartition ==
    (pc = "recompile" /\ job.helpers # 0) =>
        \A key \in DOMAIN job.tree[1].files :
           (key[2] \in GeneratedNames /\ key \notin DOMAIN job.input[1].files) =>
              /\ key[1] = job.helpers
              /\ key[1] \notin DirsOf(job.input[1].files)

\* What the environment of an extraction offers: the reader's valid output, if it
\* gives one, and the legacy signature file's hex, if the package has one.
ReaderValid ==
    /\ apkSigReader.status = "ok" /\ InputReadable(job)
    /\ IsHexString(trim(apkSigReader.stdout))
LegacyHex == getCertRsaHex(files[job.apkPath], InputReadable(job))

\* C17: the extractor returns the reader's value when the reader gives valid hex,
\* and otherwise the hex of the legacy signature file META-INF/*.RSA; so "00" comes
\* back only when the legacy file cannot be read either.
C17_LegacyFallback ==
    \A i \in 1..Len(job.extracted) :
       /\ ReaderValid => job.extracted[i] = toLowerCase(trim(apkSigReader.stdout))
       /\ ~ReaderValid => job.extracted[i] = LegacyHex

\* C17 (as the code has it): the extractor uses the signing-block reader alone; it
\* returns "00" whenever the reader is missing, fails or prints no valid hex, and
\* never the content of the legacy signature file, even when the package has one.
C17_ReaderOnly ==
    \A i \in 1..Len(job.extracted) :
       job.extracted[i] = IF ReaderValid THEN toLowerCase(trim(apkSigReader.stdout))
                          ELSE Sentinel
C17_Witness ==
    /\ Len(job.extracted) >= 1
    /\ apkSigReader.status = "missing"
    /\ LegacyHex = CertHex
    /\ job.extracted[1] = Sentinel

\* C18: a failed extraction never ends the job: the stage always hands over to the
\* next one with a signature value, which is "00" with a warning logged when the
\* reader is missing or fails, and that value is what the injected code carries.
C18_SentinelNeverAborts ==
    pc \notin {"idle", "extract"} =>
       /\ Len(job.log) = 1
       /\ apkSigReader.status # "ok" => job.signature = Sentinel
       /\ job.signature = Sentinel <=> job.log[1] = WarnNoSignature
       /\ (Returned /\ ~result.success) => ~ContainsText(result.message, <<"ApkSigReader">>)
       /\ (job.tree # Null /\ job.strategy = "ApplicationHook") =>
             \E x \in 1..Len(job.tree[1].files[job.target]) :
                /\ job.tree[1].files[job.target][x].k = "const-string"
                /\ job.tree[1].files[job.target][x].a = job.signature
C18_Witness ==
    /\ Returned /\ result.success
    /\ apkSigReader.status = "failed"
    /\ job.signature = Sentinel
    /\ job.log = <<WarnNoSignature>>
    /\ \E key \in DOMAIN files[job.outputApk].files :
          \E x \in 1..Len(files[job.outputApk].files[key]) :
             /\ IsInstallerCall(files[job.outputApk].files[key][x])
             /\ files[job.outputApk].files[key][x - 1].k = "const-string"
             /\ files[job.outputApk].files[key][x - 2].a = Sentinel

\* C19: whatever the reader prints, each value the extractor returns is a
\* non-empty string of lowercase hexadecimal digits of even length.
C19_LowercaseEvenHex ==
    \A i \in 1..Len(job.extracted) :
       /\ job.extracted[i] # << >>
       /\ \A x \in 1..Len(job.extracted[i]) :
             \E k \in 1..Len(HexDigits) : HexDigits[k] = job.extracted[i][x]
       /\ Len(job.extracted[i]) % 2 = 0

VerifyFailed ==
    \E i \in 2..Len(cmds) :
       /\ cmds[i].tool = "apksigner verify" /\ ~cmds[i].ok
       /\ cmds[i - 1].stage = "sign" /\ cmds[i - 1].ok

\* C21: a failed verification after a successful signing is only a warning: the
\* job still returns success with the signed package at the output path.
C21_VerifyFailureIsWarning ==
    (Returned /\ VerifyFailed) =>
       /\ result.success
       /\ result.outputPath = job.outputApk
       /\ job.outputApk \in DOMAIN files
       /\ files[job.outputApk].key = "newkey"

\* C22 (as stated): a job that could not locate one of its external utilities
\* ends in failure.
C22_ToolNotFoundFatal ==
    (Returned /\ job.missing # {}) => ~result.success

\* C22 (as the code has it): only the missing apktool.jar is fatal, through the
\* failure of the decompile command; without zipalign the merged container is
\* copied unaligned and the job goes on, and without apksigner the job signs with
\* jarsigner; a job lacking both can still succeed.
C22_OnlyApktoolFatal ==
    /\ (job.apktool = "" /\ pc \notin {"idle", "extract", "analyze", "decompile"}) =>
          /\ Returned /\ ~result.success
          /\ LastCmd.tool = "apktool d"
    /\ "zipalign" \in job.missing =>
          /\ \A i \in 1..Len(cmds) : cmds[i].stage # "align"
          /\ pc = "sign" => job.aligned = job.merged
          /\ (Returned /\ ~result.success) => ~ContainsText(result.message, <<"zipalign">>)
    /\ "apksigner" \in job.missing =>
          \A i \in 1..Len(cmds) : cmds[i].stage = "sign" => cmds[i].tool = "jarsigner"
C22_Witness ==
    /\ Returned /\ result.success
    /\ job.missing = {"zipalign", "apksigner"}
    /\ job.outputApk \in DOMAIN files
    /\ files[job.outputApk].key = "newkey"

\* C23: the output path differs from the input path and lies in the input's
\* directory, and the job leaves the input file as it found it.
C23_OutputBesideInput ==
    pc # "idle" =>
       /\ job.outputApk # job.apkPath
       /\ dirname(job.outputApk) = dirname(job.apkPath)
       /\ job.apkPath \in DOMAIN files /\ <<files[job.apkPath]>> = job.input

\* Two invocations are under way or done.
BothStarted == parked # << >> /\ pc # "idle" /\ parked[1].pc # "idle"

\* C24: two concurrent jobs write no common path: their working directories
\* differ, their output paths differ, neither writes the other's input, and the
\* input of a running job stays as that job found it.
C24_NoSharedPaths ==
    BothStarted =>
       /\ job.tempDir # parked[1].job.tempDir
       /\ job.outputApk # parked[1].job.outputApk
       /\ job.outputApk # parked[1].job.apkPath
       /\ parked[1].job.outputApk # job.apkPath
       /\ pc # "returned" => <<files[job.apkPath]>> = job.input

\* The stage that follows a stage of the pipeline.
StageAfter(stage) ==
    IF stage = "extract" THEN "analyze" ELSE IF stage = "analyze" THEN "decompile"
    ELSE IF stage = "decompile" THEN "inject" ELSE IF stage = "inject" THEN "recompile"
    ELSE IF stage = "recompile" THEN "merge" ELSE IF stage = "merge" THEN "align"
    ELSE IF stage = "align" THEN "sign" ELSE "returned"

\* C25: the stages of a job run one after the other in pipeline order: the
\* commands are invoked in stage order, none twice, a stage is left only for the
\* next stage or for the end of the job, alignment comes before signing, and the
\* container that is signed is the merged one.
C25_StagesInOrder ==
    /\ [](/\ \A i, k \in 1..Len(cmds) :
               /\ i < k => StageNo(cmds[i].stage) <= StageNo(cmds[k].stage)
               /\ (i # k) => <<cmds[i].stage, cmds[i].tool>> # <<cmds[k].stage, cmds[k].tool>>
               /\ (cmds[i].stage = "align" /\ cmds[k].stage = "sign") => i < k
          /\ (pc \notin {"idle", "returned"} /\ cmds # << >>) =>
                StageNo(LastCmd.stage) < StageNo(pc)
          /\ pc = "sign" => job.merged # Null /\ job.aligned = job.merged)
    /\ [][/\ pc \notin {"idle", "returned"} => pc' \in {StageAfter(pc), "returned"}
          /\ (pc = "sign" /\ result'.success) =>
                files'[job.outputApk] = Signed(job.merged[1])]_vars
C25_Witness ==
    /\ Returned /\ result.success
    /\ \E i, k \in 1..Len(cmds) :
          /\ i < k /\ cmds[i].tool = "zipalign" /\ cmds[k].stage = "sign"
    /\ \E i \in 1..Len(cmds) : cmds[i].tool = "apksigner verify"
    /\ \E i \in 1..Len(cmds) : cmds[i].stage = "merge"

\* C26: every external command a job runs has its line on the log: no command,
\* the certificate reader, the manifest converter and the extraction of the
\* manifest from the container included, runs without one.
C26_EveryCommandLogged ==
    \A i \in 1..Len(cmds) : cmds[i].logged

\* C27: when every tool invocation returns, a job that has started ends with a
\* success result or with a failure result, and once it has ended it takes no
\* further step: whatever happens next is a new job.
Done == Returned /\ result.success /\ result.outputPath = job.outputApk
Failed == Returned /\ ~result.success /\ result.message # << >>
C27_JobTerminates ==
    /\ (pc \notin {"idle", "returned"}) ~> (Done \/ Failed)
    /\ [](Returned => Done \/ Failed)
    /\ [][Returned => (pc' = "extract" /\ jobNo' = jobNo + 1 /\ cmds' = << >>)]_vars
C27_Witness ==
    /\ Done
    /\ jobNo = MaxJobs
    /\ Len(cmds) >= 8

\* C28: when injection has completed and the tree is about to be recompiled, a
\* tree that calls the installer contains the installer class and the proxy
\* handler class, on whichever strategy the call was injected.
CallsInstaller(treeFiles) ==
    \E key \in DOMAIN treeFiles :
       /\ key[2] \notin {ProxyHookPMSName, HookServiceWraperName}
       /\ \E x \in 1..Len(treeFiles[key]) : IsInstallerCall(treeFiles[key][x])
HasHelperClasses(treeFiles) ==
    /\ \E key \in DOMAIN treeFiles : key[2] = ProxyHookPMSName
    /\ \E key \in DOMAIN treeFiles : key[2] = HookServiceWraperName
C28_HelperClassesPresent ==
    (pc = "recompile" /\ job.tree # Null) =>
        /\ job.strategy \in {"ApplicationHook", "ManifestSynthesis", "ActivityFallback"}
        /\ CallsInstaller(job.tree[1].files) => HasHelperClasses(job.tree[1].files)

\* C29: when the class has the target method, the patch changes nothing outside
\* that method: the lines up to its .method line and the lines from its
\* .end method on are those of the class before the patch, so the block and the
\* changed register declaration lie inside the target method.
TargetLine(content) ==
    First({ix \in 1..Len(content) : content[ix].t = "method" /\ content[ix].k = TargetSig})
C29_PatchInsideTarget ==
    (pc = "patched" /\ TargetLine(Before) # 0) =>
        LET i == TargetLine(Before)
            e == EndOf(Before, i)
            tail == Len(Before) - e
        IN /\ Len(After) >= Len(Before)
           /\ SubSeq(After, 1, i) = SubSeq(Before, 1, i)
           /\ SubSeq(After, Len(After) - tail, Len(After)) = SubSeq(Before, e, Len(Before))

\* C30: the class the manifest analyzer returns is the android:name of the
\* opening <application> tag itself, never that of a child element, and it
\* returns null when the opening tag has no android:name.
C30_NameOfApplicationTag ==
    pc = "analyzed" =>
        LET declared == DeclaredApplication(job.input[1].man)
            returned == job.appClass[1]
        IN /\ returned # Null => returned = declared
           /\ declared = Null => returned = Null

\* C31: ApplicationHook injects at entry and forwards to super. In an existing
\* attachBaseContext the installer call comes before every original instruction
\* and the original body is unchanged; a created attachBaseContext calls the
\* installer with the Context argument p1 and then invokes attachBaseContext of
\* the class's own superclass with the same argument.
SuperOf(content) == content[First({ix \in 1..Len(content) : IsSuper(content[ix])})].k
FirstCall(content, i) ==
    First({x \in i..EndOf(content, i) : IsInstallerCall(content[x])})
FirstInsn(content, i) ==
    First({x \in i..EndOf(content, i) : content[x].t = "insn"})
C31_Existing ==
    (pc = "patched" /\ job.variant = <<"attachBaseContext">> /\ TargetLine(Before) # 0) =>
        LET i == TargetLine(Before)
            body == SubSeq(Before, FirstInsn(Before, i), EndOf(Before, i))
            k == TargetLine(After)
            e == EndOf(After, k)
        IN /\ k # 0 /\ e # 0
           /\ FirstCall(After, k) # 0
           /\ FirstCall(After, k) < e - Len(body) + 1
           /\ SubSeq(After, e - Len(body) + 1, e) = body
C31_Created ==
    (pc = "patched" /\ job.variant = <<"attachBaseContext">> /\ TargetLine(Before) = 0) =>
        LET k == TargetLine(After)
            e == EndOf(After, k)
            c == FirstCall(After, k)
        IN /\ k # 0 /\ e # 0 /\ c # 0
           /\ After[c].v[1] = "p1"
           /\ \E x \in c + 1..e :
                 After[x] = Insn("invoke-super", <<"p0", "p1">>,
                                 <<SuperOf(Before), "->", SigAttach>>)
C31_EntryAndSuper == C31_Existing /\ C31_Created

\* C32: the proxy handler puts the spoofed certificate into the result exactly
\* when the call is getPackageInfo with the include-signatures bit (0x40) set
\* for the instrumented package; every other call returns what the wrapped
\* object returns for the same arguments.
Substitutes(c) ==
    /\ c.name = "getPackageInfo"
    /\ (c.args[2].value \div 64) % 2 = 1
    /\ c.args[1] = job.packageName
C32_SubstituteIff ==
    \A i \in 1..Len(job.calls) :
       LET c == job.calls[i]
           base == BaseReturn(c.name, c.args)
       IN /\ Substitutes(c) =>
                c.returned = [base EXCEPT !.signatures = <<job.signature>>]
          /\ ~Substitutes(c) => c.returned = base

\* C33: a manifest is handled as binary exactly when it starts with 03 00 and is
\* longer than 4 bytes: only then is the converter run. When the converter
\* succeeds the decoded manifest file becomes the text form (unless that write
\* itself fails, and then no textual patch is entered); when the conversion
\* fails or the converter is missing the manifest file is left as it was and no
\* textual patch is entered. Every textual patch works on a text manifest.
ConverterRun(c, ok) ==
    \E i \in 1..Len(c) : c[i].stage = "inject" /\ c[i].tool = "AXMLPrinter2" /\ c[i].ok = ok
AppTagNames(doc) ==
    LET a == First({ix \in 1..Len(doc) : IsAppOpen(doc[ix])})
        rest == {ix \in a + 1..Len(doc) : doc[ix].t # "attr"}
        e == IF rest = {} THEN Len(doc) + 1 ELSE Min(rest)
    IN {ix \in a + 1..e - 1 : IsAndroidNameAttr(doc[ix])}
TextPatched ==
    /\ pc = "recompile"
    /\ PatchOf("text") # {}
    /\ job.patches[Len(job.patches)].ok
C34_TextPatchFrame ==
    TextPatched =>
        LET before == job.input[1].man
            doc == job.tree[1].manifest.doc
            a == First({ix \in 1..Len(before) : IsAppOpen(before[ix])})
        IN /\ Len(doc) = Len(before) + 1
           /\ \E x \in 1..Len(doc) :
                 /\ doc[x] = Attr("android:name", MyApplicationName)
                 /\ x \in AppTagNames(doc)
                 /\ SubSeq(doc, 1, x - 1) \o SubSeq(doc, x + 1, Len(doc)) = before
           /\ IsAppOpen(doc[a])
           /\ Cardinality(AppTagNames(doc)) = 1

\* C35: whenever resignApk returns success = false it leaves no file at its
\* output path: with each of the three signers failing, and with the
\* verification failing after the signer succeeded.
C35_NoSignedFileAfterFailure ==
    (pc = "sign" /\ job.aligned # Null) =>
        \A signer \in Signers, signOk \in BOOLEAN, verifyOk \in BOOLEAN :
           \A r \in {resignApk(job.aligned[1], signer, signOk, verifyOk)} :
              ~r.success => r.file = << >>

\* C36: the synthetic Application class is generated exactly when the
\* ManifestSynthesis manifest patch took effect, never on ApplicationHook or
\* ActivityFallback. Its attachBaseContext calls the installer with this job's
\* certificate hex and package name and then calls super, and no {SIGNATURE} or
\* {PACKAGE_NAME} placeholder is left in the generated text.
MyAppKey == <<1, MyApplicationName>>
MyAppGenerated ==
    /\ MyAppKey \in DOMAIN job.tree[1].files
    /\ job.target = MyAppKey
C36_SyntheticApplication ==
    (pc = "recompile" /\ job.tree # Null) =>
        /\ (MyAppGenerated /\ job.strategy # "ApplicationHook") <=>
              (job.strategy = "ManifestSynthesis" /\ \E i \in 1..Len(job.patches) : job.patches[i].ok)
        /\ job.strategy \in {"ApplicationHook", "ActivityFallback"} =>
              \/ MyAppKey \notin DOMAIN job.tree[1].files
              \/ /\ MyAppKey \in DOMAIN job.input[1].files
                 /\ job.strategy = "ActivityFallback" =>
                       job.tree[1].files[MyAppKey] = job.input[1].files[MyAppKey]
        /\ job.strategy = "ManifestSynthesis" =>
              LET c == job.tree[1].files[MyAppKey]
                  k == First({ix \in 1..Len(c) : c[ix].t = "method" /\ c[ix].k = SigAttach})
                  call == FirstCall(c, k)
              IN /\ k # 0 /\ call # 0
                 /\ c[call - 2] = Insn("const-string", <<"v0">>, job.signature)
                 /\ c[call - 1] = Insn("const-string", <<"v1">>, PkgDemo)
                 /\ c[call].v = <<"p1", "v0", "v1">>
                 /\ c[call + 1] = Insn("invoke-super", <<"p0", "p1">>,
                                       <<"Landroid/app/Application;", "->", SigAttach>>)
                 /\ \A x \in 1..Len(c) :
                       c[x].a \notin {<<"{SIGNATURE}">>, <<"{PACKAGE_NAME}">>}
C36_Witness ==
    /\ pc = "recompile" /\ job.strategy = "ManifestSynthesis"
    /\ job.signature = CertHex
    /\ job.packageName = Null
    /\ job.tree[1].files[MyAppKey] = createMyApplication(CertHex, PkgDemo)
    /\ MyAppKey \notin DOMAIN job.input[1].files

\* C37: the package name is the one the inspection tool reported when there is
\* one, otherwise the first package="..." of the manifest text; when neither
\* gives a name, injection fails before any class file is patched or generated
\* and before the manifest is patched.
InstallerCalls(content) ==
    Cardinality({x \in 1..Len(content) : IsInstallerCall(content[x])})
PackageInText(manifest, converted) ==
    LET isText == manifest.enc = "text" \/ converted
        at == {ix \in 1..Len(manifest.doc) :
                 manifest.doc[ix].t = "attr" /\ manifest.doc[ix].k = "package"}
    IN IF isText /\ at # {} THEN manifest.doc[Min(at)].v ELSE Null
C37_PackageNameResolution ==
    (pc = "inject" /\ job.tree # Null) =>
        \A axml \in AxmlOutcomes, edit \in EditOutcomes, mw \in BOOLEAN, sw \in BOOLEAN,
           reported \in {job.packageName, <<"com.reported">>} :
           \A r \in {injectHookCode([job EXCEPT !.packageName = reported],
                                     axml, edit, mw, sw)} :
              LET resolved == IF reported # Null THEN reported
                              ELSE PackageInText(job.tree[1].manifest, axml = "ok")
              IN /\ (resolved = Null) <=> (r.throw = ErrNoPackage)
                 /\ r.throw = ErrNoPackage =>
                       /\ r.files = job.tree[1].files
                       /\ r.manifest.doc = job.tree[1].manifest.doc
                       /\ r.patches = << >> /\ r.attempts = << >>
                       /\ ~r.manifestModified /\ r.binaryManifest = << >>
                       /\ \A i \in 1..Len(r.cmds) : r.cmds[i].tool = "AXMLPrinter2"
                 /\ r.throw = Null =>
                       \A key \in DOMAIN r.files :
                          LET before == IF key \in DOMAIN job.tree[1].files
                                        THEN job.tree[1].files[key] ELSE << >>
                          IN InstallerCalls(r.files[key]) > InstallerCalls(before) =>
                                \E x \in 2..Len(r.files[key]) :
                                   /\ IsInstallerCall(r.files[key][x])
                                   /\ r.files[key][x - 1].a = resolved
C37_Witness ==
    /\ Returned /\ ~result.success
    /\ job.injectError = ErrNoPackage
    /\ job.packageName = Null
    /\ ConverterRun(cmds, FALSE)
    /\ job.patches = << >> /\ attempts = << >>

\* C38: the launch Activity the analyzer returns is the android:name of the first
\* <activity> element, in document order, whose own intent filter holds both the
\* MAIN action and the LAUNCHER category; it returns null when no activity has
\* such a filter.
CloseOf(doc, i, tag) ==
    First({x \in i..Len(doc) : doc[x].t = "close" /\ doc[x].k = tag})
FilterHas(doc, f, tag, name) ==
    \E x \in f..CloseOf(doc, f, "intent-filter") - 1 :
       /\ doc[x].t = "open" /\ doc[x].k = tag
       /\ IsAndroidNameAttr(doc[x + 1]) /\ doc[x + 1].v = name
IsLaunchActivity(doc, i) ==
    /\ doc[i].t = "open" /\ doc[i].k = "activity"
    /\ \E f \in i..CloseOf(doc, i, "activity") :
          /\ doc[f].t = "open" /\ doc[f].k = "intent-filter"
          /\ FilterHas(doc, f, "action", ActionMain)
          /\ FilterHas(doc, f, "category", CategoryLauncher)
OwnName(doc, i) ==
    LET stop == First({x \in i + 1..Len(doc) : doc[x].t # "attr"})
        nm == First({x \in i + 1..stop - 1 : IsAndroidNameAttr(doc[x])})
    IN IF nm = 0 THEN Null ELSE doc[nm].v
DeclaredLaunchActivity(doc) ==
    LET i == First({x \in 1..Len(doc) : IsLaunchActivity(doc, x)})
    IN IF i = 0 THEN Null ELSE OwnName(doc, i)
C38_FirstLaunchActivity ==
    job.launchActivity # << >> =>
        job.launchActivity[1] = DeclaredLaunchActivity(job.input[1].man)
\* An alias is the only launcher entry, and its name is returned.
C38_AliasReturned ==
    /\ job.launchActivity = << <<".", "Alias">> >>
    /\ DeclaredLaunchActivity(job.input[1].man) = Null
\* On manifests without an alias the returned name is the declared one.
C38_HoldsWithoutAlias ==
    (job.launchActivity # << >>
       /\ \A x \in 1..Len(job.input[1].man) : job.input[1].man[x].k # "activity-alias")
    => job.launchActivity[1] = DeclaredLaunchActivity(job.input[1].man)

\* C39: every class name taken from the manifest is qualified before a class file
\* is looked up: a name that begins with "." becomes packageName + name, a fully
\* qualified name stays as it is, and the file looked up is always that of the
\* fully qualified class.
QualifiedClass(name, packageName) ==
    IF name[1] = "." THEN packageName \o name
    ELSE IF \E x \in 1..Len(name) : name[x] = "." THEN name
    ELSE packageName \o <<".">> \o name
FileOfClass(treeFiles, cls) ==
    LET at == {key \in DOMAIN treeFiles : key[2] = cls}
    IN IF at = {} THEN Null ELSE CHOOSE key \in at : \A other \in at : key[1] <= other[1]
C39_QualifiedLookup ==
    pc = "located" =>
        \A x \in 1..Len(job.located) :
           job.located[x].path =
              FileOfClass(job.input[1].files,
                          QualifiedClass(job.located[x].name, matchPackage(job.input[1].man)))
\* With names that begin with "." or hold a package, the file is the class's own.
C39_HoldsForDottedNames ==
    (pc = "located"
       /\ \A x \in 1..Len(job.located) :
             \E y \in 1..Len(job.located[x].name) : job.located[x].name[y] = ".")
    => C39_QualifiedLookup
\* A relative name was qualified and its file found.
C39_RelativeLocated ==
    /\ pc = "located"
    /\ \E x \in 1..Len(job.located) :
          /\ job.located[x].name = RelApp
          /\ job.located[x].path = <<1, FqApp>>

====
